---- MODULE Spec2Model ----
(***************************************************************************)
(* Model of the status-driven resumable paper pipeline of research-feed:   *)
(* the Paper record and its per-stage status fields, the SQLite store      *)
(* (INSERT OR REPLACE upsert, load by id), the scraper's cache reload, the *)
(* admission filters of every stage, the retrying workers of the LLM       *)
(* stages, and the orchestrator that checkpoints after every stage.        *)
(***************************************************************************)
EXTENDS Integers, Sequences, FiniteSets, TLC

\* ------------------------------------------------------------------ bounds
MaxRuns == 2
\* The retention periods (in days) the cleanup configuration is drawn from.
MaxRetentionDays == 1

\* ------------------------------------------------------- program constants
\* Scores are cosine similarities in units of 1e-4 (0.4 is 4000).
similarity_threshold == 4000
\* llm_scoring.py fixes its retry count; config.py sets the validation one.
scoring_max_retries == 3
validation_max_retries == 3
\* EMBEDDING['max_retries'] in config.py (no code of the embedding stage reads it).
embedding_max_retries == 3
\* H_INDEX_FETCHING and arxiv rate_limiting in config.py; the default of
\* verify_latex_source, which its caller does not override.
h_index_max_retries == 3
scraper_max_retries == 3
verify_latex_max_retries == 3

Null == "None"
\* An Optional[float] / Optional[int] field: << >> is None, << v >> is v.
NoValue == << >>
Some(v) == << v >>
ValueOf(o) == o[1]
PaperIds == {"p1", "p2"}
Topics == {"agentic_ai", "reinforcement_learning"}

valid_conclusions ==
    {"Highly Relevant", "Moderately Relevant", "Tangentially Relevant", "Not Relevant"}

\* ------------------------------------------------------------------ Paper
\* paper.py: the dataclass defaults; the scraper passes the metadata parsed
\* from the feed (pdf_url is None for a paper it could not parse).
Paper(id, pdf_url) ==
    [ id                    |-> id,
      pdf_url               |-> pdf_url,
      scraper_status        |-> "initial",
      intro_status          |-> "not_extracted",
      introduction_text     |-> Null,
      embedding_status      |-> "not_embedded",
      score                 |-> [t \in Topics |-> NoValue],
      llm_validation_status |-> "not_validated",
      relevance             |-> [t \in Topics |-> "not_validated"],
      justification         |-> [t \in Topics |-> "no_justification"],
      llm_score_status      |-> "not_scored",
      recommendation_score  |-> Null,
      h_index_status        |-> "not_fetched",
      highest_h_index       |-> NoValue,
      errors                |-> << >>,
      last_generated        |-> Null ]

add_error(p, msg) == [p EXCEPT !.errors = Append(@, msg)]

is_successfully_scraped(p) == p.scraper_status = "successfully_scraped"
is_intro_successful(p) == p.intro_status = "intro_successful"
can_skip_intro_extraction(p) ==
    p.intro_status \in {"intro_successful", "no_latex_source", "no_intro_found"}
is_embedding_completed(p) == p.embedding_status = "completed"
is_llm_validation_completed(p) == p.llm_validation_status = "completed"
can_skip_llm_scoring(p) ==
    p.llm_score_status \in {"completed", "failed", "not_relevant_enough"}
has_highly_relevant_topic(p) ==
    \E t \in Topics : p.relevance[t] \in {"Highly Relevant", "Moderately Relevant"}
can_skip_h_index_fetching(p) == p.h_index_status \in {"completed", "failed"}
is_valuable_paper(p) == p.recommendation_score \in {"Must Read", "Should Read"}

\* The status fields and, for each, its initial (pending) value.
StatusFields ==
    {"scraper_status", "intro_status", "embedding_status",
     "llm_validation_status", "llm_score_status", "h_index_status"}
PendingValue(f) ==
    CASE f = "scraper_status"        -> "initial"
      [] f = "intro_status"          -> "not_extracted"
      [] f = "embedding_status"      -> "not_embedded"
      [] f = "llm_validation_status" -> "not_validated"
      [] f = "llm_score_status"      -> "not_scored"
      [] f = "h_index_status"        -> "not_fetched"
StatusOf(p, f) ==
    CASE f = "scraper_status"        -> p.scraper_status
      [] f = "intro_status"          -> p.intro_status
      [] f = "embedding_status"      -> p.embedding_status
      [] f = "llm_validation_status" -> p.llm_validation_status
      [] f = "llm_score_status"      -> p.llm_score_status
      [] f = "h_index_status"        -> p.h_index_status
IsTerminal(p, f) == StatusOf(p, f) # PendingValue(f)

\* ------------------------------------------------------------ Entity store
\* database.py: the papers table is a bag of rows; INSERT OR REPLACE on the
\* PRIMARY KEY id deletes the row that holds the key and inserts the new one
\* (plain_insert is the INSERT a table without the primary key would do).
plain_insert(rows, p) == rows \cup {p}
\* INSERT OR IGNORE: a row that already holds the key is kept as it is.
insert_or_ignore(rows, p) == IF \E r \in rows : r.id = p.id THEN rows ELSE rows \cup {p}
InsertOrReplace(rows, p) == {r \in rows : r.id # p.id} \cup {p}

RECURSIVE SaveEach(_, _, _)
SaveEach(rows, papers, ids) ==
    IF ids = {} THEN rows
    ELSE LET i == CHOOSE x \in ids : TRUE
         IN SaveEach(InsertOrReplace(rows, papers[i]), papers, ids \ {i})

\* The order of a dict's keys (insertion order; here one fixed order of ids).
IdOrder == << "p1", "p2", "e1", "e2", "e3", "e4" >>
\* An iteration that yields every paper of the dict twice.
in_order_twice(ids) == SelectSeq(IdOrder \o IdOrder, LAMBDA i : i \in ids)
InOrder(ids) == SelectSeq(IdOrder, LAMBDA i : i \in ids)

\* "with sqlite3.connect(...) as conn": leaving the block commits the
\* transaction, leaving it by an exception rolls it back
\* (commit_even_if_raised is a connection in autocommit mode).
commit_even_if_raised(before, working, raised) == working
connection_exit(before, working, raised) == IF raised THEN before ELSE working

\* One call of save_papers: one INSERT OR REPLACE per paper of the dict, in
\* the dict's order, inside one transaction. fail_at = k > 0: writing the
\* k-th paper raises, after the k - 1 before it were executed; 0: none does.
save_papers_call(rows, papers, fail_at) ==
    LET ids == InOrder(DOMAIN papers)
        executed == IF fail_at = 0 THEN DOMAIN papers
                    ELSE {ids[k] : k \in 1..(fail_at - 1)}
    IN connection_exit(rows, SaveEach(rows, papers, executed), fail_at # 0)

\* save_papers when no write raises.
save_papers(rows, papers) == save_papers_call(rows, papers, 0)

\* load_papers: SELECT * WHERE id IN (ids), keyed by the row's id; the
\* Paper it builds is not given the row's last_generated (the default stays).
load_papers(rows, ids) ==
    LET found == {r.id : r \in {x \in rows : x.id \in ids}}
    IN [i \in found |-> [(CHOOSE r \in rows : r.id = i) EXCEPT !.last_generated = Null]]

\* load_paper: SELECT * WHERE id = ?; None when there is no row, else the
\* Paper built from every column, last_generated included.
load_paper(rows, id) ==
    IF \E r \in rows : r.id = id THEN CHOOSE r \in rows : r.id = id ELSE Null

EmptyDict == [i \in {} |-> Null]

\* ----------------------------------------------------------------- scraper
\* The feed is the XML answer of the arXiv query: the ids it lists and, for
\* each, whether its entry parses ("ok") or not ("unparsable").
FeedResults == {"ok", "unparsable"}

\* scraper._load_cached_papers: a cached paper is kept only when its
\* scraper_status is successfully_scraped; every other id maps to None
\* (here: is left out of the dict).
load_cached_papers(rows, paper_ids) ==
    LET cached_papers == load_papers(rows, paper_ids)
        hits == {i \in DOMAIN cached_papers : is_successfully_scraped(cached_papers[i])}
    IN [i \in hits |-> cached_papers[i]]

\* scraper._extract_metadata_for_missing_papers: a fresh Paper for every id
\* that is None, parsed from the XML or marked scraping_failed.
extract_metadata_for_missing_papers(xml, runtime_dict) ==
    [i \in DOMAIN xml |->
        IF i \in DOMAIN runtime_dict THEN runtime_dict[i]
        ELSE IF xml[i] = "ok"
             THEN [Paper(i, "pdf_url") EXCEPT !.scraper_status = "successfully_scraped"]
             ELSE add_error([Paper(i, Null) EXCEPT !.scraper_status = "scraping_failed"],
                            "Paper not found in XML response")]

\* scraper.run, steps 3 and 4.
scraper_run(rows, xml) ==
    extract_metadata_for_missing_papers(xml, load_cached_papers(rows, DOMAIN xml))

\* ------------------------------------------------------------ intro stage
\* What the arXiv source endpoint answers for one paper: the HEAD check
\* fails ("no_source"), or it passes and the download yields an introduction
\* ("intro"), no introduction ("no_intro") or an exception ("error").
IntroOutcomes == {"no_source", "intro", "no_intro", "error"}

\* intro_extractor.check_latex_availability without the HEAD request: TRUE
\* when the request is made.
intro_needs_request(p) == ~can_skip_intro_extraction(p) /\ p.pdf_url # Null

\* check_latex_availability: the paper it leaves and the value it returns.
check_latex_availability(p, head_ok) ==
    IF can_skip_intro_extraction(p) THEN [paper |-> p, has_latex |-> FALSE]
    ELSE IF p.pdf_url = Null
    THEN [paper |-> add_error([p EXCEPT !.intro_status = "no_latex_source"],
                              "No PDF URL available"),
          has_latex |-> FALSE]
    ELSE IF head_ok THEN [paper |-> p, has_latex |-> TRUE]
    ELSE [paper |-> add_error([p EXCEPT !.intro_status = "no_latex_source"],
                              "LaTeX source verification failed"),
          has_latex |-> FALSE]

\* download_and_extract_introduction
download_and_extract_introduction(p, outcome) ==
    CASE outcome = "intro" ->
            [p EXCEPT !.introduction_text = "introduction",
                      !.intro_status = "intro_successful"]
      [] outcome = "no_intro" ->
            add_error([p EXCEPT !.intro_status = "no_intro_found"],
                      "Could not find introduction section")
      [] outcome = "error" ->
            add_error([p EXCEPT !.intro_status = "extraction_failed"],
                      "Introduction extraction failed")

\* check_latex_availability followed, when it returns True, by
\* download_and_extract_introduction.
intro_process(p, outcome) ==
    LET checked == check_latex_availability(p, outcome # "no_source")
    IN IF checked.has_latex
       THEN download_and_extract_introduction(checked.paper, outcome)
       ELSE checked.paper

\* A run that hands back only the papers that went through phase 2.
intro_run_with_latex_only(papers, outcomes) ==
    LET with_latex == {i \in DOMAIN papers :
                          intro_needs_request(papers[i]) /\ outcomes[i] # "no_source"}
    IN [i \in with_latex |-> intro_process(papers[i], outcomes[i])]

\* intro_extractor.run: phase 1 splits the dict, phase 2 downloads, and the
\* two parts are merged again.
intro_run(papers, outcomes) ==
    LET with_latex == {i \in DOMAIN papers :
                          intro_needs_request(papers[i]) /\ outcomes[i] # "no_source"}
        without_latex == DOMAIN papers \ with_latex
    IN [i \in with_latex \cup without_latex |->
          IF intro_needs_request(papers[i])
          THEN intro_process(papers[i], outcomes[i])
          ELSE intro_process(papers[i], "no_source")]

\* -------------------------------------------------------- embedding stage

Abs(v) == IF v < 0 THEN -v ELSE v
\* round(): to the nearest multiple of unit, ties to the even multiple.
RoundTo(a, unit) ==
    LET q == a \div unit
        r == a % unit
    IN IF 2 * r > unit \/ (2 * r = unit /\ q % 2 = 1) THEN (q + 1) * unit ELSE q * unit

\* embedding_similarity._round_to_3_sig_figs, on scores in units of 1e-4.
round_to_3_sig_figs(value) ==
    IF value = NoValue THEN NoValue
    ELSE IF ValueOf(value) = 0 THEN Some(0)
    ELSE LET a == Abs(ValueOf(value))
             unit == IF a >= 10000 THEN 100 ELSE IF a >= 1000 THEN 10 ELSE 1
         IN IF ValueOf(value) < 0 THEN Some(-RoundTo(a, unit)) ELSE Some(RoundTo(a, unit))

\* _round_similarity_scores: every paper of the dict with embedding completed.
round_similarity_scores(papers) ==
    [i \in DOMAIN papers |->
        IF papers[i].embedding_status = "completed"
        THEN [papers[i] EXCEPT !.score = [t \in Topics |-> round_to_3_sig_figs(@[t])]]
        ELSE papers[i]]

\* _create_batches: slices of batch_size of the list.
create_batches(list, batch_size) ==
    [b \in 1..((Len(list) + batch_size - 1) \div batch_size) |->
        SubSeq(list, (b - 1) * batch_size + 1,
               IF b * batch_size < Len(list) THEN b * batch_size ELSE Len(list))]

SeqToSet(q) == {q[k] : k \in 1..Len(q)}

\* The backend's answer for one paper inside a batch that succeeded: the raw
\* cosine similarities per topic, unless its embedding cannot be read from
\* the response (an item error).
RawScores == {3994, 3996}
ItemScores == [Topics -> RawScores]
\* The answers a pipeline run is driven with: no topic reaches the
\* threshold, or the first one rounds to exactly the threshold.
PipelineItemScores == {s \in ItemScores : s["reinforcement_learning"] = 3994}
\* The answer for a whole batch call: it succeeds or raises.
BatchAnswers == {"ok", "failed", "token"}

\* A batch failure that leaves the papers of the batch as they were.
process_batch_item_failure_unmarked(p, batch_answer, item_scores, item_error) ==
    IF batch_answer # "ok" THEN p
    ELSE IF ~item_error
    THEN [p EXCEPT !.score = [t \in Topics |-> Some(item_scores[t])],
                   !.embedding_status = "completed"]
    ELSE add_error([p EXCEPT !.embedding_status = "failed"],
                   "Error calculating similarity scores")

\* _process_batch, for one paper of the batch.
process_batch_item(p, batch_answer, item_scores, item_error) ==
    CASE batch_answer = "token" ->
            add_error([p EXCEPT !.embedding_status = "failed"],
                      "embedding_token_limit_exceeded")
      [] batch_answer = "failed" ->
            add_error([p EXCEPT !.embedding_status = "failed"],
                      "Embedding generation failed")
      [] batch_answer = "ok" ->
            IF ~item_error
            THEN [p EXCEPT !.score = [t \in Topics |-> Some(item_scores[t])],
                           !.embedding_status = "completed"]
            ELSE add_error([p EXCEPT !.embedding_status = "failed"],
                           "Error calculating similarity scores")

\* EmbeddingSimilarity.run, steps 2 to 4 (the topic embeddings are at hand).
embedding_to_process(papers) == {i \in DOMAIN papers : ~is_embedding_completed(papers[i])}

embedding_run(papers, batch_size, batch_answers, item_scores, item_errors) ==
    LET todo == embedding_to_process(papers)
        batches == create_batches(InOrder(todo), batch_size)
        batch_of(i) == CHOOSE b \in DOMAIN batches : i \in SeqToSet(batches[b])
        processed == [i \in DOMAIN papers |->
                        IF i \in todo
                        THEN process_batch_item(papers[i], batch_answers[batch_of(i)],
                                                item_scores[i], i \in item_errors)
                        ELSE papers[i]]
    IN IF todo = {} THEN papers ELSE round_similarity_scores(processed)

\* --------------------------------------------------- LLM validation stage
\* The comparison with > in place of >=.
topics_strictly_above(p, threshold) ==
    {t \in Topics : p.score[t] # NoValue /\ ValueOf(p.score[t]) > threshold}

\* _get_topics_to_validate: the topics whose score is not None and at or
\* above the threshold.
get_topics_to_validate(p, threshold) ==
    {t \in Topics : p.score[t] # NoValue /\ ValueOf(p.score[t]) >= threshold}

\* _set_below_threshold_justifications
set_below_threshold_justifications(p, threshold) ==
    [p EXCEPT !.justification =
        [t \in Topics |-> IF p.score[t] = NoValue \/ ValueOf(p.score[t]) < threshold
                          THEN "below_threshold" ELSE @[t]]]

\* _set_all_below_threshold
set_all_below_threshold(p) ==
    [p EXCEPT !.justification = [t \in Topics |-> "below_threshold"]]

\* The filter without the threshold test: every embedded paper not yet
\* validated is handed to the workers.
admit_every_embedded_paper(papers, threshold) ==
    {i \in DOMAIN papers :
        /\ is_embedding_completed(papers[i])
        /\ papers[i].llm_validation_status \notin {"completed", "failed"}}

\* A filter that hands nothing to the workers when more than three papers
\* qualify.
admit_unless_crowded(papers, threshold) ==
    LET qualify == {i \in DOMAIN papers :
                      /\ is_embedding_completed(papers[i])
                      /\ papers[i].llm_validation_status \notin {"completed", "failed"}
                      /\ get_topics_to_validate(papers[i], threshold) # {}}
    IN IF Cardinality(qualify) > 3 THEN {} ELSE qualify

\* _identify_papers_for_validation: the counter the loop increments for a
\* paper it does not hand to the workers ("admitted": none, it is handed over).
validation_skip_reason(p, threshold) ==
    IF ~is_embedding_completed(p) THEN "no_embedding_data"
    ELSE IF p.llm_validation_status \in {"completed", "failed"} THEN "already_validated"
    ELSE IF get_topics_to_validate(p, threshold) # {} THEN "admitted"
    ELSE "no_topics_above_threshold"

\* _identify_papers_for_validation: the papers handed to the workers ...
validation_admitted(papers, threshold) ==
    {i \in DOMAIN papers :
        /\ is_embedding_completed(papers[i])
        /\ papers[i].llm_validation_status \notin {"completed", "failed"}
        /\ get_topics_to_validate(papers[i], threshold) # {}}

\* ... and the dict as the filter leaves it: a paper with no topic above the
\* threshold is marked completed without any call.
identify_papers_for_validation(papers, threshold) ==
    [i \in DOMAIN papers |->
        LET p == papers[i] IN
        IF ~is_embedding_completed(p) THEN p
        ELSE IF p.llm_validation_status \in {"completed", "failed"} THEN p
        ELSE IF get_topics_to_validate(p, threshold) # {}
        THEN set_below_threshold_justifications(p, threshold)
        ELSE [set_all_below_threshold(p) EXCEPT !.llm_validation_status = "completed"]]

\* What one call of the worker meets: a well-formed reply ("ok"), a generic
\* error of the API call ("error"), a reply that fails XML or schema parsing
\* ("malformed": _parse_xml_response raises), a 429 / rate limit error
\* ("rate_limit"), or a token limit error ("token_limit").
AttemptOutcomes == {"ok", "error", "malformed", "rate_limit", "token_limit"}

\* _update_paper_with_results: the reply carries a conclusion per validated
\* topic.
validation_update_paper_with_results(p, reply, threshold) ==
    LET validated == get_topics_to_validate(p, threshold) IN
    [p EXCEPT !.relevance = [t \in Topics |-> IF t \in validated THEN reply[t] ELSE @[t]],
              !.justification = [t \in Topics |-> IF t \in validated THEN "llm" ELSE @[t]]]

ValidationFailure(outcome) ==
    CASE outcome = "error"       -> "LLM validation failed after 4 attempts: error"
      [] outcome = "rate_limit"  -> "LLM validation failed after 4 attempts: 429"
      [] outcome = "token_limit" -> "LLM validation failed after 4 attempts: token limit"
      [] outcome = "malformed"   -> "LLM validation failed after 4 attempts: XML parsing error"

\* The loop with a rate-limited failure taken as final: no retry after it.
validation_attempt_no_retry_after_429(p, attempt, outcome, reply, threshold, max_retries) ==
    IF outcome = "ok"
    THEN [paper |-> [validation_update_paper_with_results(p, reply, threshold)
                        EXCEPT !.llm_validation_status = "completed"],
          again |-> FALSE, extra_delay |-> FALSE, backoff |-> FALSE]
    ELSE IF attempt = max_retries \/ outcome = "rate_limit"
    THEN [paper |-> add_error([p EXCEPT !.llm_validation_status = "failed"],
                              ValidationFailure(outcome)),
          again |-> FALSE, extra_delay |-> outcome = "rate_limit", backoff |-> FALSE]
    ELSE [paper |-> p, again |-> TRUE, extra_delay |-> FALSE, backoff |-> TRUE]

\* The loop with its last pass one attempt early.
validation_attempt_one_short(p, attempt, outcome, reply, threshold, max_retries) ==
    IF outcome = "ok"
    THEN [paper |-> [validation_update_paper_with_results(p, reply, threshold)
                        EXCEPT !.llm_validation_status = "completed"],
          again |-> FALSE, extra_delay |-> FALSE, backoff |-> FALSE]
    ELSE IF attempt + 1 >= max_retries
    THEN [paper |-> add_error([p EXCEPT !.llm_validation_status = "failed"],
                              ValidationFailure(outcome)),
          again |-> FALSE, extra_delay |-> outcome = "rate_limit", backoff |-> FALSE]
    ELSE [paper |-> p, again |-> TRUE,
          extra_delay |-> outcome = "rate_limit", backoff |-> TRUE]

\* One pass of the for loop of LLMValidation._process_paper_with_retry:
\* the paper after the attempt, whether the loop goes on, and whether the
\* attempt ends in the extra rate-limit sleep and in the backoff sleep.
validation_attempt(p, attempt, outcome, reply, threshold, max_retries) ==
    IF outcome = "ok"
    THEN [paper |-> [validation_update_paper_with_results(p, reply, threshold)
                        EXCEPT !.llm_validation_status = "completed"],
          again |-> FALSE, extra_delay |-> FALSE, backoff |-> FALSE]
    ELSE IF attempt = max_retries
    THEN [paper |-> add_error([p EXCEPT !.llm_validation_status = "failed"],
                              ValidationFailure(outcome)),
          again |-> FALSE, extra_delay |-> outcome = "rate_limit", backoff |-> FALSE]
    ELSE [paper |-> p, again |-> TRUE,
          extra_delay |-> outcome = "rate_limit", backoff |-> TRUE]

\* ------------------------------------------------------ LLM scoring stage
\* _identify_papers_for_scoring: the papers handed to the workers ...
scoring_admitted(papers) ==
    {i \in DOMAIN papers :
        /\ is_llm_validation_completed(papers[i])
        /\ ~can_skip_llm_scoring(papers[i])
        /\ has_highly_relevant_topic(papers[i])}

\* ... and the dict as the filter leaves it.
identify_papers_for_scoring(papers) ==
    [i \in DOMAIN papers |->
        LET p == papers[i] IN
        IF ~is_llm_validation_completed(p) THEN p
        ELSE IF can_skip_llm_scoring(p) THEN p
        ELSE IF has_highly_relevant_topic(p) THEN p
        ELSE [p EXCEPT !.llm_score_status = "not_relevant_enough"]]

Recommendations == {"Must Read", "Should Read", "Can Skip", "Ignore"}

\* An update that stores nothing.
scoring_update_nothing(p, reply) == p

\* _update_paper_with_results
scoring_update_paper_with_results(p, reply) == [p EXCEPT !.recommendation_score = reply]

ScoringFailure(outcome) ==
    CASE outcome = "error"       -> "LLM scoring failed after 4 attempts: error"
      [] outcome = "rate_limit"  -> "LLM scoring failed after 4 attempts: 429"
      [] outcome = "malformed"   -> "LLM scoring failed after 4 attempts: XML parsing error"

\* The loop with an error appended for every failed attempt, not only for
\* the last one.
scoring_attempt_recording_each_failure(p, attempt, outcome, reply, max_retries) ==
    IF outcome = "ok"
    THEN [paper |-> [scoring_update_paper_with_results(p, reply)
                        EXCEPT !.llm_score_status = "completed"],
          again |-> FALSE, extra_delay |-> FALSE, backoff |-> FALSE]
    ELSE IF outcome = "token_limit"
    THEN [paper |-> add_error([p EXCEPT !.llm_score_status = "failed"],
                              "LLM scoring failed: token limit exceeded"),
          again |-> FALSE, extra_delay |-> FALSE, backoff |-> FALSE]
    ELSE IF attempt = max_retries
    THEN [paper |-> add_error([p EXCEPT !.llm_score_status = "failed"],
                              ScoringFailure(outcome)),
          again |-> FALSE, extra_delay |-> outcome = "rate_limit", backoff |-> FALSE]
    ELSE [paper |-> add_error(p, ScoringFailure(outcome)), again |-> TRUE,
          extra_delay |-> outcome = "rate_limit", backoff |-> TRUE]

\* One pass of the for loop of LLMScoring._process_paper_with_retry.
scoring_attempt(p, attempt, outcome, reply, max_retries) ==
    IF outcome = "ok"
    THEN [paper |-> [scoring_update_paper_with_results(p, reply)
                        EXCEPT !.llm_score_status = "completed"],
          again |-> FALSE, extra_delay |-> FALSE, backoff |-> FALSE]
    ELSE IF outcome = "token_limit"
    THEN [paper |-> add_error([p EXCEPT !.llm_score_status = "failed"],
                              "LLM scoring failed: token limit exceeded"),
          again |-> FALSE, extra_delay |-> FALSE, backoff |-> FALSE]
    ELSE IF attempt = max_retries
    THEN [paper |-> add_error([p EXCEPT !.llm_score_status = "failed"],
                              ScoringFailure(outcome)),
          again |-> FALSE, extra_delay |-> outcome = "rate_limit", backoff |-> FALSE]
    ELSE [paper |-> p, again |-> TRUE,
          extra_delay |-> outcome = "rate_limit", backoff |-> TRUE]

\* ---------------------------------------------------------- h-index stage
\* The filter without the is_valuable_paper test.
every_unfetched_paper(papers) ==
    {i \in DOMAIN papers : ~can_skip_h_index_fetching(papers[i])}

\* _identify_target_papers
identify_target_papers(papers) ==
    {i \in DOMAIN papers :
        ~can_skip_h_index_fetching(papers[i]) /\ is_valuable_paper(papers[i])}

\* What Semantic Scholar answers for one paper: found by one of the three
\* searches, found nowhere, or an exception while fetching.
HIndexOutcomes == {"found", "not_found", "exception"}

\* _fetch_h_index_for_paper and the except branch of HIndexFetching.run.
fetch_h_index_for_paper(p, outcome) ==
    CASE outcome = "found" ->
            [p EXCEPT !.highest_h_index = Some(7), !.h_index_status = "completed"]
      [] outcome = "not_found" ->
            add_error([p EXCEPT !.h_index_status = "failed"],
                      "H-index fetching failed: not found in Semantic Scholar")
      [] outcome = "exception" ->
            add_error([p EXCEPT !.h_index_status = "failed"], "H-index fetching failed")

\* HIndexFetching.run with the try around the whole loop: the first
\* exception ends the loop, that paper and the ones after it stay as they are.
h_index_run_unguarded(papers, outcomes) ==
    LET order == InOrder(identify_target_papers(papers))
        raised == {k \in 1..Len(order) : outcomes[order[k]] = "exception"}
        done == {order[k] : k \in {m \in 1..Len(order) : \A r \in raised : m < r}}
    IN [i \in DOMAIN papers |->
          IF i \in done THEN fetch_h_index_for_paper(papers[i], outcomes[i]) ELSE papers[i]]

\* HIndexFetching.run: each paper is fetched inside its own try / except
\* Exception, so an exception marks that paper failed and the loop goes on.
h_index_run(papers, outcomes) ==
    LET target == identify_target_papers(papers) IN
    [i \in DOMAIN papers |->
        IF i \in target THEN fetch_h_index_for_paper(papers[i], outcomes[i]) ELSE papers[i]]

\* ------------------------------------------------ retry loops, as a whole
\* A script gives the outcome the worker meets on each attempt 0..max_retries.
Scripts(max_retries) == [0..max_retries -> AttemptOutcomes]

\* LLMValidation._process_paper_with_retry: the for loop from `attempt` on;
\* the paper it leaves and the number of attempts it made.
RECURSIVE validation_retry_from(_, _, _, _, _, _)
validation_retry_from(p, attempt, script, reply, threshold, max_retries) ==
    LET step == validation_attempt(p, attempt, script[attempt], reply, threshold, max_retries)
    IN IF step.again /\ attempt < max_retries
       THEN validation_retry_from(step.paper, attempt + 1, script, reply, threshold, max_retries)
       ELSE [paper |-> step.paper, attempts |-> attempt + 1]

validation_process_paper_with_retry(p, script, reply) ==
    validation_retry_from(p, 0, script, reply, similarity_threshold, validation_max_retries)

\* LLMScoring._process_paper_with_retry
RECURSIVE scoring_retry_from(_, _, _, _, _)
scoring_retry_from(p, attempt, script, reply, max_retries) ==
    LET step == scoring_attempt(p, attempt, script[attempt], reply, max_retries)
    IN IF step.again /\ attempt < max_retries
       THEN scoring_retry_from(step.paper, attempt + 1, script, reply, max_retries)
       ELSE [paper |-> step.paper, attempts |-> attempt + 1]

scoring_process_paper_with_retry(p, script, reply) ==
    scoring_retry_from(p, 0, script, reply, scoring_max_retries)

\* LLMValidation.run: the filter, then every admitted paper through its
\* retry loop (the thread pool is modelled step by step further down).
validation_run(papers, scripts, replies) ==
    LET admitted == validation_admitted(papers, similarity_threshold)
        filtered == identify_papers_for_validation(papers, similarity_threshold)
    IN [i \in DOMAIN papers |->
          IF i \in admitted
          THEN validation_process_paper_with_retry(filtered[i], scripts[i], replies[i]).paper
          ELSE filtered[i]]

\* LLMScoring.run
scoring_run(papers, scripts, replies) ==
    LET admitted == scoring_admitted(papers)
        filtered == identify_papers_for_scoring(papers)
    IN [i \in DOMAIN papers |->
          IF i \in admitted
          THEN scoring_process_paper_with_retry(filtered[i], scripts[i], replies[i]).paper
          ELSE filtered[i]]

\* ============================================================ orchestrator
\* main.py: scraper, then each stage followed by save_to_database.
VARIABLES
    store,        \* rows of the papers table of database.sqlite
    runtime,      \* runtime_paper_dict of the running process
    pc,           \* "idle" | "run" (a stage is next) | "save" | "done"
    stage,        \* index into StageNames of the stage that is next or just ran
    run,          \* number of pipeline runs started
    feed,         \* the XML answer of this run's arXiv query
    called,       \* <<stage, id>>: outbound calls made by this run's stages
    topic_cache,  \* topics with a row in the topic_embeddings table
    prev,         \* how the previous run ended, and whether this run's feed
                  \* is the same as the previous run's
    faults,       \* what was raised in this run so far: the name of the stage
                  \* whose run raised, SaveFault(n) (the save_to_database
                  \* call after stage n), "interrupt" (KeyboardInterrupt)
    hazard        \* TRUE: a behaviour in which the disk, the environment and
                  \* the user can make save_to_database, a processor's
                  \* constructor, the cleanup, Slack or main itself raise

StageNames ==
    << "scraper", "intro", "embedding", "llm_validation", "llm_scoring", "h_index",
       "database_cleanup", "slack" >>
LastStage == Len(StageNames)
\* The stages whose failure ends the run; the two after them are wrapped in
\* try / except together with their save.
LastFatalStage == 6
\* main: an exception of stage n's run ends the process with status 1,
\* unless the stage is one of the two inside try / except Exception
\* (every_stage_non_fatal: all of them are).
every_stage_non_fatal(n) == FALSE
stage_is_fatal(n) == n <= LastFatalStage

SaveFault(n) == "save after " \o StageNames[n]
SaveFaultNames == {SaveFault(n) : n \in 1..LastStage}

\* The command line of one process (modelled further down).
VARIABLE
    cli           \* the arguments given, how far main has got with them, the
                  \* exit status, the scraper main has called, and whether a
                  \* PaperDatabase was constructed (database.sqlite created)

\* One call of a request helper (modelled further down).
VARIABLE
    req           \* the helper, the index of its loop, the answers its requests
                  \* got, the backoff sleeps it took, and what it returned

VARIABLE
    cache_papers  \* the papers table of cache.sqlite in the working directory
                  \* (id and last_generated of its rows); NoValue: it has none

pvars == << store, runtime, pc, stage, run, feed, called, topic_cache, prev, faults,
           hazard, cli, req, cache_papers >>

\* The state of one call of run of a concurrent stage (modelled further down).
VARIABLES
    ex_stage,     \* "intro" | "llm_validation" | "llm_scoring" | "none"
    ex_input,     \* the dict passed to run
    ex_papers,    \* the dict as the workers mutate it
    ex_pc,        \* "start" | "batch" (a batch is in the pool) | "between" | "returned"
    ex_todo,      \* admitted papers not yet submitted, in order (intro:
                  \* papers_with_latex)
    ex_queue,     \* submitted tasks no pool thread has taken yet, in order
    ex_item,      \* per paper: where its task stands, its attempt number,
                  \* whether every failure it met so far was a rate limit,
                  \* and what its last attempt met once it has finished
    ex_sem,       \* free permits of self.semaphore
    ex_attempts   \* per paper: calls of _process_single_paper begun

evars == << ex_stage, ex_input, ex_papers, ex_pc, ex_todo, ex_queue, ex_item,
            ex_sem, ex_attempts >>

Feeds == [PaperIds -> FeedResults]

NoPrev == [ended |-> "none", checkpoint |-> 0, same_feed |-> FALSE]

\* The command line of the runs of the pipeline model: its arguments were
\* accepted before the run begins (neither is looked at again).
NoCli ==
    [date |-> [given |-> FALSE, empty |-> FALSE, sep |-> "-", month |-> 1, day |-> 1],
     test |-> [given |-> FALSE, empty |-> FALSE, exists |-> FALSE],
     pc |-> "accepted", status |-> 0, scraper |-> "none", db |-> FALSE]

\* No request helper is running.
NoReq == [helper |-> "none", attempt |-> 0, answers |-> << >>, sleeps |-> 0,
          result |-> "running"]

PipelineInit ==
    /\ store = {}
    /\ runtime = EmptyDict
    /\ pc = "idle"
    /\ stage = 0
    /\ run = 0
    /\ feed = EmptyDict
    /\ called = {}
    /\ topic_cache = {}
    /\ prev = NoPrev
    /\ faults = {}
    /\ cli = NoCli
    /\ req = NoReq
    /\ cache_papers = Some({})

\* The runs of a behaviour in which exceptions are raised.
FaultRuns == 1

\* A new process starts: main() up to the answer of the arXiv query.
StartRun ==
    /\ pc = "idle"
    /\ run < (IF hazard THEN FaultRuns ELSE MaxRuns)
    /\ \E xml \in Feeds :
          /\ feed' = xml
          /\ prev' = [prev EXCEPT !.same_feed = (run > 0 /\ xml = feed)]
    /\ run' = run + 1
    /\ pc' = "run"
    /\ stage' = 1
    /\ called' = {}
    /\ faults' = {}
    /\ UNCHANGED << store, runtime, topic_cache >>
    /\ UNCHANGED << hazard, cli, req, cache_papers, evars >>

\* The number of enrichment stages of this run whose checkpoint is behind it.
Checkpoints ==
    IF pc = "done" \/ stage > LastFatalStage THEN LastFatalStage ELSE stage - 1

\* main's except clauses: the error (or "Pipeline interrupted by user") is
\* logged and sys.exit(1) ends the process; neither handler saves anything.
ExitStatus1(causes) ==
    /\ prev' = [ended |-> "failed", checkpoint |-> Checkpoints, same_feed |-> FALSE]
    /\ pc' = "idle"
    /\ stage' = 0
    /\ runtime' = EmptyDict
    /\ called' = {}
    /\ faults' = faults \cup causes
    /\ UNCHANGED << store, run, feed, topic_cache >>

\* The run of the stage that is next raises before it has changed a paper.
StageRaises ==
    IF stage_is_fatal(stage) THEN ExitStatus1({StageNames[stage]})
    ELSE /\ pc' = "save"
         /\ faults' = faults \cup {StageNames[stage]}
         /\ UNCHANGED << store, runtime, stage, run, feed, called, topic_cache, prev >>

\* scraper.run / test_scraper.run, steps 3 and 4.
Scrape ==
    /\ pc = "run" /\ stage = 1
    /\ runtime' = scraper_run(store, feed)
    /\ pc' = "save"
    /\ UNCHANGED << store, stage, run, feed, called, topic_cache, prev, faults >>
    /\ UNCHANGED << hazard, cli, req, cache_papers, evars >>

\* One call of save_to_database: nothing is written for an empty dict;
\* otherwise save_papers, whose exception it lets through (skip_save is a
\* save_to_database that returns without writing).
skip_save(rows, runtime_paper_dict, fail_at) == rows
save_to_database_call(rows, runtime_paper_dict, fail_at) ==
    IF DOMAIN runtime_paper_dict = {} THEN rows
    ELSE save_papers_call(rows, runtime_paper_dict, fail_at)

\* save_to_database when save_papers does not raise.
save_to_database(rows, runtime_paper_dict) ==
    save_to_database_call(rows, runtime_paper_dict, 0)

\* Where a save of the dict can raise: at any of its papers, or nowhere (0).
SaveFaults(runtime_paper_dict) == 0..Cardinality(DOMAIN runtime_paper_dict)

\* The checkpoint after the stage that just ran (stages 1 to 6): the save
\* is outside any inner try, so its exception reaches main's
\* except Exception and the process exits with status 1.
Checkpoint ==
    /\ pc = "save"
    /\ \E fail_at \in (IF hazard THEN SaveFaults(runtime) ELSE {0}) :
          IF fail_at = 0
          THEN /\ store' = save_to_database_call(store, runtime, fail_at)
               /\ pc' = "run"
               /\ stage' = stage + 1
               /\ UNCHANGED << runtime, run, feed, called, topic_cache, prev, faults >>
          ELSE /\ store' = save_to_database_call(store, runtime, fail_at)
               /\ prev' = [ended |-> "failed", checkpoint |-> Checkpoints,
                           same_feed |-> FALSE]
               /\ pc' = "idle"
               /\ stage' = 0
               /\ runtime' = EmptyDict
               /\ called' = {}
               /\ faults' = faults \cup {SaveFault(stage)}
               /\ UNCHANGED << run, feed, topic_cache >>
    /\ UNCHANGED << hazard, cli, req, cache_papers, evars >>

\* The answers of the source endpoint a pipeline run is driven with.
PipelineIntroOutcomes == {"intro", "error"}

\* intro_extractor.run
IntroStage ==
    /\ pc = "run" /\ stage = 2
    /\ \E outcomes \in [{j \in DOMAIN runtime : intro_needs_request(runtime[j])}
                             -> PipelineIntroOutcomes] :
          runtime' = intro_run(runtime, outcomes)
    /\ called' = called \cup
          {<< "intro", i >> : i \in {j \in DOMAIN runtime : intro_needs_request(runtime[j])}}
    /\ pc' = "save"
    /\ UNCHANGED << store, stage, run, feed, topic_cache, prev, faults >>
    /\ UNCHANGED << hazard, cli, req, cache_papers, evars >>

\* The bound on the batch size of the embedding stage (config: 100).
embedding_batch_size == 1

\* EmbeddingSimilarity.run. _ensure_topic_embeddings first: the topics with
\* no cached row are computed one after another (in the order of a Python
\* set), and all of them are committed together after the loop; if one
\* cannot be computed the RuntimeError ends the run (main: exit 1) and the
\* uncommitted rows of the topics obtained before it are lost. faults keeps
\* the names of those topics.
EmbeddingStage ==
    /\ pc = "run" /\ stage = 3
    /\ \E topics_ok \in BOOLEAN :
         IF topic_cache # Topics /\ ~topics_ok
         THEN \E obtained \in SUBSET (Topics \ topic_cache) :
                 /\ obtained # Topics \ topic_cache
                 /\ ExitStatus1({StageNames[stage]}
                                \cup {"topic obtained: " \o t : t \in obtained})
         ELSE LET todo == embedding_to_process(runtime)
                  n == Len(create_batches(InOrder(todo), embedding_batch_size))
              IN /\ \E batch_answers \in [1..n -> {"ok", "failed"}],
                       item_scores \in [todo -> PipelineItemScores],
                       item_errors \in {{}} :
                       runtime' = embedding_run(runtime, embedding_batch_size,
                                                batch_answers, item_scores, item_errors)
                 /\ called' = called
                       \cup {<< "embedding", i >> : i \in todo}
                       \cup (IF topic_cache # Topics
                             THEN {<< "embedding", "topics" >>} ELSE {})
                 /\ topic_cache' = Topics
                 /\ pc' = "save"
                 /\ UNCHANGED << store, stage, run, feed, prev, faults >>
    /\ UNCHANGED << hazard, cli, req, cache_papers, evars >>

\* The scripts and replies the LLM backend is driven with in a pipeline run.
ScriptOf(kind) ==
    [a \in 0..validation_max_retries |->
        CASE kind = "ok"          -> "ok"
          [] kind = "retry_ok"    -> IF a = 0 THEN "error" ELSE "ok"
          [] kind = "error"       -> "error"
          [] kind = "token_limit" -> "token_limit"]
ValidationScripts == {ScriptOf(k) : k \in {"ok", "error"}}
ScoringScripts == {ScriptOf(k) : k \in {"ok", "error", "token_limit"}}
ReplyConclusions == {"Moderately Relevant", "Tangentially Relevant", "Not Relevant"}
ReplyRecommendations == {"Must Read", "Can Skip"}

\* The module's run builds the processor first: __init__ raises ValueError
\* when the environment holds no API key, before any paper is looked at.
\* llm_validation.run
ValidationStage ==
    /\ pc = "run" /\ stage = 4
    /\ \E api_key \in (IF hazard THEN BOOLEAN ELSE {TRUE}) :
         IF ~api_key THEN StageRaises
         ELSE LET admitted == validation_admitted(runtime, similarity_threshold) IN
              /\ \E scripts \in [admitted -> ValidationScripts],
                    replies \in [admitted -> [Topics -> ReplyConclusions]] :
                    runtime' = validation_run(runtime, scripts, replies)
              /\ called' = called \cup {<< "llm_validation", i >> : i \in admitted}
              /\ pc' = "save"
              /\ UNCHANGED << store, stage, run, feed, topic_cache, prev, faults >>
    /\ UNCHANGED << hazard, cli, req, cache_papers, evars >>

\* llm_scoring.run
ScoringStage ==
    /\ pc = "run" /\ stage = 5
    /\ \E api_key \in (IF hazard THEN BOOLEAN ELSE {TRUE}) :
         IF ~api_key THEN StageRaises
         ELSE LET admitted == scoring_admitted(runtime) IN
              /\ \E scripts \in [admitted -> ScoringScripts],
                    replies \in [admitted -> ReplyRecommendations] :
                    runtime' = scoring_run(runtime, scripts, replies)
              /\ called' = called \cup {<< "llm_scoring", i >> : i \in admitted}
              /\ pc' = "save"
              /\ UNCHANGED << store, stage, run, feed, topic_cache, prev, faults >>
    /\ UNCHANGED << hazard, cli, req, cache_papers, evars >>

\* h_index_fetching.run
HIndexStage ==
    /\ pc = "run" /\ stage = 6
    /\ LET target == identify_target_papers(runtime) IN
       /\ \E outcomes \in [target -> (IF hazard THEN HIndexOutcomes
                                        ELSE {"found", "not_found"})] :
             runtime' = h_index_run(runtime, outcomes)
       /\ called' = called \cup {<< "h_index", i >> : i \in target}
    /\ pc' = "save"
    /\ UNCHANGED << store, stage, run, feed, topic_cache, prev, faults >>
    /\ UNCHANGED << hazard, cli, req, cache_papers, evars >>

\* The date database_cleanup.run stamps the papers with (one day per run).
current_date == "day" \o ToString(run)

\* database_cleanup._update_runtime_papers: the Paper objects in memory are
\* stamped first, then the UPDATE is sent to cache.sqlite.
update_runtime_papers(papers, date) ==
    [i \in DOMAIN papers |-> [papers[i] EXCEPT !.last_generated = date]]

\* database_cleanup._cleanup_old_papers: DELETE FROM papers WHERE
\* last_generated IS NOT NULL AND last_generated < cutoff_date, on the
\* connection it is given. cutoff is the number of the cutoff day.
cleanup_old_papers(rows, cutoff) ==
    {r \in rows : ~(/\ r.last_generated # Null
                    /\ \E d \in 0..(cutoff - 1) : r.last_generated = "day" \o ToString(d))}

\* database_cleanup.run ends normally, or raises: before the papers are
\* stamped (connect, _ensure_last_generated_column) or after (the UPDATE,
\* _cleanup_old_papers). The dict holds the same objects either way.
CleanupOutcomes == {"ok", "raised_before_update", "raised_after_update"}
database_cleanup_run(papers, date, outcome) ==
    IF outcome = "raised_before_update" THEN papers
    ELSE update_runtime_papers(papers, date)

\* main, step 7: database_cleanup.run and the save that follows it are in
\* one try; an exception of either is logged as a warning and the run goes
\* on with step 8. The stage connects to "cache.sqlite": its UPDATE and its
\* DELETE act on the papers table of that file (without one,
\* _ensure_last_generated_column raises), and a raise inside the with block
\* rolls them back. The save that follows writes database.sqlite.
CleanupStage ==
    /\ pc = "run" /\ stage = 7
    /\ \E outcome \in (IF cache_papers = NoValue THEN {"raised_before_update"}
                       ELSE IF hazard THEN CleanupOutcomes ELSE {"ok"}),
          retention_days \in 0..MaxRetentionDays :
          /\ runtime' = database_cleanup_run(runtime, current_date, outcome)
          /\ cache_papers' =
                IF outcome = "ok"
                THEN LET updated == {IF r.id \in DOMAIN runtime
                                     THEN [r EXCEPT !.last_generated = current_date]
                                     ELSE r : r \in ValueOf(cache_papers)}
                     IN Some(cleanup_old_papers(updated, run - retention_days))
                ELSE cache_papers
          /\ IF outcome = "ok"
             THEN \E fail_at \in (IF hazard THEN SaveFaults(runtime) ELSE {0}) :
                     /\ store' = save_to_database_call(store, runtime', fail_at)
                     /\ faults' = faults \cup (IF fail_at = 0 THEN {} ELSE {SaveFault(stage)})
             ELSE /\ store' = store
                  /\ faults' = faults \cup {StageNames[stage]}
    /\ pc' = "run"
    /\ stage' = stage + 1
    /\ UNCHANGED << run, feed, called, topic_cache, prev >>
    /\ UNCHANGED << hazard, cli, req, evars >>

\* main, step 8: slack.run returns the dict as it is or raises; the save
\* that follows is in the same try. Then the final summary
\* ("PIPELINE COMPLETED SUCCESSFULLY") and the normal end of main.
SlackStage ==
    /\ pc = "run" /\ stage = LastStage
    /\ \E sent \in (IF hazard THEN BOOLEAN ELSE {TRUE}) :
          IF sent
          THEN \E fail_at \in (IF hazard THEN SaveFaults(runtime) ELSE {0}) :
                  /\ store' = save_to_database_call(store, runtime, fail_at)
                  /\ faults' = faults \cup (IF fail_at = 0 THEN {} ELSE {SaveFault(stage)})
          ELSE /\ store' = store
               /\ faults' = faults \cup {StageNames[stage]}
    /\ pc' = "done"
    /\ UNCHANGED << runtime, stage, run, feed, called, topic_cache, prev >>
    /\ UNCHANGED << hazard, cli, req, cache_papers, evars >>

\* The process is killed while a run is under way; the store stays.
Kill ==
    /\ pc \in {"run", "save"}
    /\ prev' = [ended |-> "killed", checkpoint |-> Checkpoints, same_feed |-> FALSE]
    /\ pc' = "idle"
    /\ stage' = 0
    /\ runtime' = EmptyDict
    /\ called' = {}
    /\ faults' = {}
    /\ UNCHANGED << store, run, feed, topic_cache >>
    /\ UNCHANGED << hazard, cli, req, cache_papers, evars >>

\* KeyboardInterrupt reaches main while a stage or a save is under way:
\* "Pipeline interrupted by user", sys.exit(1). The handler saves nothing.
Interrupt ==
    /\ hazard
    /\ pc \in {"run", "save"}
    /\ ExitStatus1({"interrupt"})
    /\ UNCHANGED << hazard, cli, req, cache_papers, evars >>

\* The run ends after the final summary.
Exit ==
    /\ pc = "done"
    /\ prev' = [ended |-> "completed", checkpoint |-> Checkpoints, same_feed |-> FALSE]
    /\ pc' = "idle"
    /\ stage' = 0
    /\ runtime' = EmptyDict
    /\ called' = {}
    /\ faults' = {}
    /\ UNCHANGED << store, run, feed, topic_cache >>
    /\ UNCHANGED << hazard, cli, req, cache_papers, evars >>

PipelineNext ==
    \/ StartRun \/ Scrape \/ Checkpoint \/ IntroStage \/ EmbeddingStage
    \/ ValidationStage \/ ScoringStage \/ HIndexStage \/ CleanupStage \/ SlackStage
    \/ Interrupt \/ Kill \/ Exit

\* ================================================= the concurrent executor
\* LLMValidation.run and LLMScoring.run thread by thread: the papers of a
\* batch are submitted to a ThreadPoolExecutor(max_workers); each task runs
\* _process_paper_with_retry_wrapper, which holds the stage's semaphore for
\* the whole retry loop, backoff sleeps included.
\* Bounds of the executor model (config: max_workers 10 / 5, batch_size 10).
max_workers == 2
validation_batch_size == 3
ExecIds == {"e1", "e2", "e3", "e4"}

\* One permit and one thread more than max_workers.
one_worker_more == max_workers + 1

\* Semaphore(config['max_workers']) and ThreadPoolExecutor(max_workers=
\* config['max_workers']).
config_max_workers == max_workers

\* The batch size of a stage: llm_scoring and the intro phases submit every
\* paper at once.
batch_size_of(stage_name, n) ==
    IF stage_name = "llm_validation" THEN validation_batch_size ELSE n

ExecIdle ==
    /\ ex_stage = "none"
    /\ ex_input = EmptyDict
    /\ ex_papers = EmptyDict
    /\ ex_pc = "returned"
    /\ ex_todo = << >>
    /\ ex_queue = << >>
    /\ ex_item = EmptyDict
    /\ ex_sem = 0
    /\ ex_attempts = EmptyDict

\* Papers as the earlier stages leave them.
Scraped(i) == [Paper(i, "pdf_url") EXCEPT !.scraper_status = "successfully_scraped"]
Embedded(i, s) ==
    round_similarity_scores(
        [j \in {i} |-> process_batch_item(Scraped(i), "ok", s, FALSE)])[i]
AtThreshold == [t \in Topics |-> IF t = "agentic_ai" THEN 3996 ELSE 3994]
BelowThreshold == [t \in Topics |-> 3994]
Validated(i, conclusion) ==
    validation_attempt(
        identify_papers_for_validation([j \in {i} |-> Embedded(i, AtThreshold)],
                                       similarity_threshold)[i],
        0, "ok", [t \in Topics |-> conclusion], similarity_threshold,
        validation_max_retries).paper

\* The dicts run is called with: three papers the filter admits and a fourth
\* that it admits, settles without a call, or skips (for validation: one
\* with a score at the threshold, with every score below it, with every
\* score None as a row of an older schema has it, or with no embedding).
ExecInputs(stage_name) ==
    LET eligible(i) ==
            CASE stage_name = "intro" -> Scraped(i)
              [] stage_name = "llm_validation" -> Embedded(i, AtThreshold)
              [] stage_name = "llm_scoring" -> Validated(i, "Moderately Relevant")
        others(i) ==
            CASE stage_name = "intro" ->
                    {Scraped(i), [Scraped(i) EXCEPT !.pdf_url = Null],
                     intro_process(Scraped(i), "intro")}
              [] stage_name = "llm_validation" ->
                    {Embedded(i, AtThreshold), Embedded(i, BelowThreshold),
                     [Embedded(i, BelowThreshold) EXCEPT !.score = [t \in Topics |-> NoValue]],
                     process_batch_item(Scraped(i), "failed", BelowThreshold, FALSE)}
              [] stage_name = "llm_scoring" ->
                    {Validated(i, "Moderately Relevant"), Validated(i, "Not Relevant"),
                     validation_attempt(Embedded(i, AtThreshold), validation_max_retries,
                                        "error", [t \in Topics |-> "Not Relevant"],
                                        similarity_threshold,
                                        validation_max_retries).paper}
    IN {[i \in ExecIds |-> IF i = "e4" THEN last ELSE eligible(i)] : last \in others("e4")}

ExecInit ==
    /\ ex_stage \in {"intro", "llm_validation", "llm_scoring"}
    /\ ex_input \in ExecInputs(ex_stage)
    /\ ex_papers = ex_input
    /\ ex_pc = "start"
    /\ ex_todo = << >>
    /\ ex_queue = << >>
    /\ ex_item = [i \in ExecIds |-> [state |-> "none", attempt |-> 0, rate_limited_only |-> TRUE,
                                      outcome |-> "none"]]
    /\ ex_sem = config_max_workers
    /\ ex_attempts = [i \in ExecIds |-> 0]

\* The reply a successful call carries in the executor model.
exec_reply(stage_name) ==
    IF stage_name = "llm_validation"
    THEN [t \in Topics |-> "Highly Relevant"]
    ELSE "Should Read"

\* One pass of the retry loop of the stage.
exec_attempt(stage_name, p, attempt, outcome) ==
    IF stage_name = "llm_validation"
    THEN validation_attempt(p, attempt, outcome, exec_reply(stage_name),
                            similarity_threshold, validation_max_retries)
    ELSE scoring_attempt(p, attempt, outcome, exec_reply(stage_name), scoring_max_retries)

exec_admitted(stage_name, papers) ==
    CASE stage_name = "intro" -> {i \in DOMAIN papers : intro_needs_request(papers[i])}
      [] stage_name = "llm_validation" -> validation_admitted(papers, similarity_threshold)
      [] stage_name = "llm_scoring" -> scoring_admitted(papers)

exec_status(stage_name, p) ==
    CASE stage_name = "intro" -> p.intro_status
      [] stage_name = "llm_validation" -> p.llm_validation_status
      [] stage_name = "llm_scoring" -> p.llm_score_status

\* Tasks a pool thread is running: inside the wrapper, waiting for the
\* semaphore or holding it.
pool_busy == {i \in DOMAIN ex_item : ex_item[i].state \in {"waiting", "attempting", "sleeping"}}
\* Workers inside `with self.semaphore`.
in_semaphore == {i \in DOMAIN ex_item : ex_item[i].state \in {"attempting", "sleeping"}}

\* run, step 1: the filter; with nothing to process run returns at once.
ExecStart ==
    /\ ex_pc = "start"
    /\ ex_stage # "intro"
    /\ ex_papers' = (IF ex_stage = "llm_validation"
                     THEN identify_papers_for_validation(ex_input, similarity_threshold)
                     ELSE identify_papers_for_scoring(ex_input))
    /\ ex_todo' = InOrder(exec_admitted(ex_stage, ex_input))
    /\ ex_pc' = (IF ex_todo' = << >> THEN "returned" ELSE "between")
    /\ UNCHANGED << ex_stage, ex_input, ex_queue, ex_item, ex_sem, ex_attempts >>
    /\ UNCHANGED pvars

\* The next batch is submitted to a fresh pool: executor.submit for each paper.
SubmitBatch ==
    /\ ex_pc = "between"
    /\ LET n == batch_size_of(ex_stage, Len(ex_todo))
           batch == SubSeq(ex_todo, 1, IF n < Len(ex_todo) THEN n ELSE Len(ex_todo))
       IN /\ ex_queue' = batch
          /\ ex_todo' = SubSeq(ex_todo, Len(batch) + 1, Len(ex_todo))
          /\ ex_item' = [i \in DOMAIN ex_item |->
                            IF i \in SeqToSet(batch)
                            THEN [ex_item[i] EXCEPT !.state = "queued"] ELSE ex_item[i]]
    /\ ex_pc' = "batch"
    /\ UNCHANGED << ex_stage, ex_input, ex_papers, ex_sem, ex_attempts >>
    /\ UNCHANGED pvars

\* A pool thread takes the oldest queued task: the pool has max_workers threads.
PickUp ==
    /\ ex_pc = "batch"
    /\ ex_queue # << >>
    /\ Cardinality(pool_busy) < config_max_workers
    /\ ex_item' = [ex_item EXCEPT ![Head(ex_queue)].state = "waiting"]
    /\ ex_queue' = Tail(ex_queue)
    /\ UNCHANGED << ex_stage, ex_input, ex_papers, ex_pc, ex_todo, ex_sem, ex_attempts >>
    /\ UNCHANGED pvars

\* `with self.semaphore`: the worker enters and makes its first call.
Acquire(i) ==
    /\ ex_stage # "intro"
    /\ ex_item[i].state = "waiting"
    /\ ex_sem > 0
    /\ ex_sem' = ex_sem - 1
    /\ ex_item' = [ex_item EXCEPT ![i] = [state |-> "attempting", attempt |-> 0,
                                          rate_limited_only |-> TRUE,
                                      outcome |-> "none"]]
    /\ ex_attempts' = [ex_attempts EXCEPT ![i] = @ + 1]
    /\ UNCHANGED << ex_stage, ex_input, ex_papers, ex_pc, ex_todo, ex_queue >>
    /\ UNCHANGED pvars

\* The call of _process_single_paper returns or raises: the worker records
\* the result and leaves the semaphore, or goes to sleep before the next
\* attempt, still holding it.
FinishAttempt(i) ==
    /\ ex_item[i].state = "attempting"
    /\ \E outcome \in AttemptOutcomes :
          LET step == exec_attempt(ex_stage, ex_papers[i], ex_item[i].attempt, outcome)
          IN /\ ex_papers' = [ex_papers EXCEPT ![i] = step.paper]
             /\ IF step.again
                THEN /\ ex_item' = [ex_item EXCEPT
                                        ![i].state = "sleeping",
                                        ![i].rate_limited_only = @ /\ outcome = "rate_limit",
                                        ![i].outcome = outcome]
                     /\ ex_sem' = ex_sem
                ELSE /\ ex_item' = [ex_item EXCEPT
                                        ![i].state = "finished",
                                        ![i].rate_limited_only =
                                            @ /\ outcome \in {"ok", "rate_limit"},
                                        ![i].outcome = outcome]
                     /\ ex_sem' = ex_sem + 1
    /\ UNCHANGED << ex_stage, ex_input, ex_pc, ex_todo, ex_queue, ex_attempts >>
    /\ UNCHANGED pvars

\* The backoff sleep ends: the next attempt begins.
Wake(i) ==
    /\ ex_item[i].state = "sleeping"
    /\ ex_item' = [ex_item EXCEPT ![i] = [@ EXCEPT !.state = "attempting", !.attempt = @ + 1,
                                                   !.outcome = "none"]]
    /\ ex_attempts' = [ex_attempts EXCEPT ![i] = @ + 1]
    /\ UNCHANGED << ex_stage, ex_input, ex_papers, ex_pc, ex_todo, ex_queue, ex_sem >>
    /\ UNCHANGED pvars

\* A run that does not wait for its futures.
no_wait == TRUE

\* Every future of the pool is done: as_completed has yielded them all and
\* the with block has shut the pool down.
all_futures_done == ex_queue = << >> /\ pool_busy = {}

\* The dict run hands back: for the intro stage the merge of
\* papers_with_latex and papers_without_latex, which hold the papers whose
\* phase 1 future was collected.
returned_dict ==
    IF ex_stage = "intro"
    THEN [i \in {j \in DOMAIN ex_papers : ex_item[j].state = "finished"} |-> ex_papers[i]]
    ELSE ex_papers

\* The batch (or phase) is over: the next one follows, or run returns.
BatchDone ==
    /\ ex_pc = "batch"
    /\ all_futures_done
    /\ IF ex_todo = << >>
       THEN ex_pc' = "returned" /\ ex_papers' = returned_dict
       ELSE ex_pc' = "between" /\ ex_papers' = ex_papers
    /\ UNCHANGED << ex_stage, ex_input, ex_todo, ex_queue, ex_item, ex_sem, ex_attempts >>
    /\ UNCHANGED pvars

\* intro_extractor.run, phase 1: a header check task for every paper.
IntroSubmitChecks ==
    /\ ex_pc = "start"
    /\ ex_stage = "intro"
    /\ ex_queue' = InOrder(DOMAIN ex_input)
    /\ ex_item' = [i \in DOMAIN ex_item |-> [state |-> "queued", attempt |-> 0,
                                           rate_limited_only |-> TRUE,
                                      outcome |-> "none"]]
    /\ ex_pc' = "batch"
    /\ UNCHANGED << ex_stage, ex_input, ex_papers, ex_todo, ex_sem, ex_attempts >>
    /\ UNCHANGED pvars

\* A pool thread runs check_latex_availability and the main thread collects
\* the future: the paper joins papers_with_latex or papers_without_latex.
IntroCheck(i) ==
    /\ ex_stage = "intro"
    /\ ex_item[i].state = "waiting"
    /\ ex_item[i].attempt = 0
    /\ \E head_ok \in BOOLEAN :
          LET checked == check_latex_availability(ex_papers[i], head_ok)
          IN /\ ex_papers' = [ex_papers EXCEPT ![i] = checked.paper]
             /\ ex_todo' = (IF checked.has_latex THEN Append(ex_todo, i) ELSE ex_todo)
             /\ ex_item' = [ex_item EXCEPT ![i] =
                               [state |-> "finished",
                                attempt |-> IF checked.has_latex THEN 1 ELSE 0,
                                rate_limited_only |-> TRUE,
                                      outcome |-> "none"]]
    /\ ex_attempts' = [ex_attempts EXCEPT ![i] =
                          IF intro_needs_request(ex_papers[i]) THEN @ + 1 ELSE @]
    /\ UNCHANGED << ex_stage, ex_input, ex_pc, ex_queue, ex_sem >>
    /\ UNCHANGED pvars

\* Phase 2: a pool thread runs download_and_extract_introduction.
IntroDownload(i) ==
    /\ ex_stage = "intro"
    /\ ex_item[i].state = "waiting"
    /\ ex_item[i].attempt = 1
    /\ \E outcome \in IntroOutcomes \ {"no_source"} :
          ex_papers' = [ex_papers EXCEPT
                           ![i] = download_and_extract_introduction(@, outcome)]
    /\ ex_item' = [ex_item EXCEPT ![i].state = "finished"]
    /\ ex_attempts' = [ex_attempts EXCEPT ![i] = @ + 1]
    /\ UNCHANGED << ex_stage, ex_input, ex_pc, ex_todo, ex_queue, ex_sem >>
    /\ UNCHANGED pvars

ExecNext ==
    \/ ExecStart \/ SubmitBatch \/ PickUp \/ BatchDone \/ IntroSubmitChecks
    \/ \E i \in ExecIds :
          Acquire(i) \/ FinishAttempt(i) \/ Wake(i) \/ IntroCheck(i) \/ IntroDownload(i)

\* ====================================================== the embedding loop
\* EmbeddingSimilarity.run batch by batch (the topic embeddings are at
\* hand): ex_todo holds the papers of the batches not yet processed, and
\* ex_item records, for a processed paper, the number of its batch
\* (attempt) and the answer the batch call got (state); ex_sem counts the
\* batches processed so far.
\* The batch size of this model (config: 100).
exec_embedding_batch_size == 2

\* The dicts run is called with: each paper new, embedded or failed.
EmbedInputs ==
    [ExecIds -> UNION {{Scraped(i), Embedded(i, AtThreshold),
                        process_batch_item(Scraped(i), "failed", BelowThreshold, FALSE)} :
                       i \in ExecIds}]

\* run, step 2: the papers to process; with none run returns at once.
EmbedStart ==
    /\ ex_pc = "start"
    /\ ex_stage = "embedding"
    /\ ex_todo' = InOrder(embedding_to_process(ex_input))
    /\ ex_pc' = (IF ex_todo' = << >> THEN "returned" ELSE "between")
    /\ UNCHANGED << ex_stage, ex_input, ex_papers, ex_queue, ex_item, ex_sem, ex_attempts >>
    /\ UNCHANGED pvars

\* The batch that is next in the loop of step 3.
next_batch == SeqToSet(create_batches(ex_todo, exec_embedding_batch_size)[1])

\* run, step 3, one pass: _process_batch on the next batch, one
\* embeddings.create call for all of its papers.
EmbedBatch ==
    /\ ex_pc = "between"
    /\ ex_stage = "embedding"
    /\ ex_todo # << >>
    /\ \E batch_answer \in BatchAnswers, item_scores \in [next_batch -> PipelineItemScores],
          item_errors \in SUBSET next_batch :
          /\ ex_papers' = [i \in DOMAIN ex_papers |->
                              IF i \in next_batch
                              THEN process_batch_item(ex_papers[i], batch_answer,
                                                      item_scores[i], i \in item_errors)
                              ELSE ex_papers[i]]
          /\ ex_item' = [i \in DOMAIN ex_item |->
                            IF i \in next_batch
                            THEN [ex_item[i] EXCEPT !.state = batch_answer,
                                                    !.attempt = ex_sem + 1]
                            ELSE ex_item[i]]
    /\ ex_todo' = SubSeq(ex_todo, Cardinality(next_batch) + 1, Len(ex_todo))
    /\ ex_sem' = ex_sem + 1
    /\ ex_attempts' = [i \in DOMAIN ex_attempts |->
                          IF i \in next_batch THEN ex_attempts[i] + 1 ELSE ex_attempts[i]]
    /\ UNCHANGED << ex_stage, ex_input, ex_pc, ex_queue >>
    /\ UNCHANGED pvars

\* run, step 4: the loop is over, the scores are rounded and run returns.
EmbedRound ==
    /\ ex_pc = "between"
    /\ ex_stage = "embedding"
    /\ ex_todo = << >>
    /\ ex_papers' = round_similarity_scores(ex_papers)
    /\ ex_pc' = "returned"
    /\ UNCHANGED << ex_stage, ex_input, ex_todo, ex_queue, ex_item, ex_sem, ex_attempts >>
    /\ UNCHANGED pvars

EmbedNext == EmbedStart \/ EmbedBatch \/ EmbedRound

\* ======================================================= the command line
\* main up to the call of the scraper. An argument is given or not (None);
\* --date is "" or year 2025, a separator, a month and a day; --test is ""
\* or the path of a file that exists or not.
DateArgs ==
    {[given |-> g, empty |-> g, sep |-> "-", month |-> 1, day |-> 1] : g \in BOOLEAN}
    \cup {[given |-> TRUE, empty |-> FALSE, sep |-> s, month |-> m, day |-> d] :
             s \in {"-", "/"}, m \in {1, 2, 13}, d \in {28, 30, 31}}
TestArgs ==
    {[given |-> g, empty |-> g, exists |-> FALSE] : g \in BOOLEAN}
    \cup {[given |-> TRUE, empty |-> FALSE, exists |-> e] : e \in BOOLEAN}

\* bool(args.date), bool(args.test): None and "" are false.
truthy(arg) == arg.given /\ ~arg.empty

\* datetime.strptime(args.date, '%Y-%m-%d') returns (2025 is not a leap year).
strptime_ok(date) ==
    /\ ~date.empty
    /\ date.sep = "-"
    /\ date.month \in 1..12
    /\ date.day \in 1..(IF date.month = 2 THEN 28
                         ELSE IF date.month \in {4, 6, 9, 11} THEN 30 ELSE 31)

\* parse_arguments: the required mutually exclusive group makes argparse
\* exit with status 2 unless exactly one of the two is on the command line.
parse_arguments_ok(date, test) == date.given # test.given

\* validate_arguments returns (it raises ValueError or FileNotFoundError
\* otherwise); "if args.date:" and "if args.test:" skip None and "".
validate_arguments_ok(date, test) ==
    /\ truthy(date) => strptime_ok(date)
    /\ truthy(test) => test.exists

\* args = parse_arguments()
CliParse ==
    /\ cli.pc = "start"
    /\ cli' = IF parse_arguments_ok(cli.date, cli.test)
              THEN [cli EXCEPT !.pc = "parsed"]
              ELSE [cli EXCEPT !.pc = "exited", !.status = 2]
    /\ UNCHANGED << store, runtime, pc, stage, run, feed, called, topic_cache, prev,
                    faults, hazard, req, cache_papers, evars >>

\* validate_arguments(args); its exception reaches except Exception.
CliValidate ==
    /\ cli.pc = "parsed"
    /\ cli' = IF validate_arguments_ok(cli.date, cli.test)
              THEN [cli EXCEPT !.pc = "accepted"]
              ELSE [cli EXCEPT !.pc = "exited", !.status = 1]
    /\ UNCHANGED << store, runtime, pc, stage, run, feed, called, topic_cache, prev,
                    faults, hazard, req, cache_papers, evars >>

\* "if args.date: scraper.run(...) else: test_scraper.run(...)": the
\* scraper is constructed (its PaperDatabase creates database.sqlite and
\* the tables), then the date query is sent, or the test file is opened:
\* open(None) and open("") raise, which ends the process with status 1.
CliScrape ==
    /\ cli.pc = "accepted"
    /\ cli.scraper = "none"
    /\ cli.date.given \/ cli.test.given
    /\ cli' = IF truthy(cli.date)
              THEN [cli EXCEPT !.scraper = "scraper", !.db = TRUE, !.pc = "scraped"]
              ELSE IF truthy(cli.test)
              THEN [cli EXCEPT !.scraper = "test_scraper", !.db = TRUE, !.pc = "scraped"]
              ELSE [cli EXCEPT !.scraper = "test_scraper", !.db = TRUE,
                               !.pc = "exited", !.status = 1]
    /\ UNCHANGED << store, runtime, pc, stage, run, feed, called, topic_cache, prev,
                    faults, hazard, req, cache_papers, evars >>

CliNext == CliParse \/ CliValidate \/ CliScrape

\* ====================================================== the request helpers
\* The three helpers that send one HTTP request in a retry loop. What one
\* request meets: a 200 response, a 404, a 429, a 5xx response, a timeout,
\* or a connection error.
RequestAnswers == {"200", "404", "429", "5xx", "timeout", "connection_error"}

\* HIndexFetching._make_api_request, one pass of `for attempt in
\* range(self.max_retries + 1)`: whether the loop goes on (after a sleep)
\* and what is returned otherwise.
h_index_request_attempt(attempt, answer, max_retries) ==
    CASE answer = "200" -> [again |-> FALSE, result |-> "json"]
      [] answer = "404" -> [again |-> FALSE, result |-> "None"]
      [] answer \in {"429", "timeout"} ->
            IF attempt < max_retries THEN [again |-> TRUE, result |-> "running"]
            ELSE [again |-> FALSE, result |-> "None"]
      [] answer = "5xx" -> [again |-> FALSE, result |-> "None"]
      [] answer = "connection_error" -> [again |-> FALSE, result |-> "None"]

\* verify_latex_source, one pass of `while retry_count < max_retries`
\* entered with retry_count = attempt: a response ends the loop, an
\* exception (requests raises none for a status code) counts a retry.
verify_latex_source_attempt(attempt, answer, max_retries) ==
    CASE answer = "200" -> [again |-> FALSE, result |-> "True"]
      [] answer \in {"404", "429", "5xx"} -> [again |-> FALSE, result |-> "False"]
      [] answer \in {"timeout", "connection_error"} ->
            IF attempt + 1 < max_retries THEN [again |-> TRUE, result |-> "running"]
            ELSE [again |-> FALSE, result |-> "False"]

\* ArxivScraper._make_api_request, one pass of `for attempt in
\* range(max_retries + 1)`: urlopen raises for every status but 2xx, and
\* every exception is retried until the last pass re-raises it.
scraper_request_attempt(attempt, answer, max_retries) ==
    IF answer = "200" THEN [again |-> FALSE, result |-> "xml"]
    ELSE IF attempt < max_retries THEN [again |-> TRUE, result |-> "running"]
    ELSE [again |-> FALSE, result |-> "raise"]

\* The helper called, with its retry limit.
request_attempt(helper, attempt, answer) ==
    CASE helper = "h_index" -> h_index_request_attempt(attempt, answer, h_index_max_retries)
      [] helper = "verify_latex_source" ->
            verify_latex_source_attempt(attempt, answer, verify_latex_max_retries)
      [] helper = "scraper" -> scraper_request_attempt(attempt, answer, scraper_max_retries)

\* One pass of the helper's loop: the request is sent and answered, and the
\* helper returns (or raises) or sleeps and goes round again.
Request ==
    /\ req.helper # "none"
    /\ req.result = "running"
    /\ \E answer \in RequestAnswers :
          LET step == request_attempt(req.helper, req.attempt, answer)
          IN req' = [req EXCEPT !.attempt = IF step.again THEN @ + 1 ELSE @,
                                !.answers = Append(@, answer),
                                !.sleeps = IF step.again THEN @ + 1 ELSE @,
                                !.result = step.result]
    /\ UNCHANGED << store, runtime, pc, stage, run, feed, called, topic_cache, prev,
                    faults, hazard, cli, cache_papers, evars >>

\* ========================================================= specifications
vars == << pvars, evars >>

\* The pipeline, run after run: MaxRuns runs in which only the services
\* fail and the process can be killed, or FaultRuns runs in which the saves,
\* the constructors, the cleanup, Slack and main itself can raise as well.
Init == PipelineInit /\ hazard \in BOOLEAN /\ ExecIdle
Next == PipelineNext
Spec == Init /\ [][Next]_vars

\* One call of run of a concurrent stage.
InitExec == PipelineInit /\ hazard = FALSE /\ ExecInit
SpecExec == InitExec /\ [][ExecNext]_vars

\* The admission filter of LLM validation on its own: ExecStart applied to
\* dicts of papers with any scores (None included) and any statuses.
AdmitIds == {"e1", "e2"}
AdmitScores == {NoValue, Some(3990), Some(4000), Some(4010)}
AdmitPapers(i) ==
    {[Scraped(i) EXCEPT !.score = sc, !.embedding_status = es,
                        !.llm_validation_status = vs] :
        sc \in [Topics -> AdmitScores],
        es \in {"completed", "failed"},
        vs \in {"not_validated", "completed", "failed"}}
InitAdmit ==
    /\ PipelineInit
    /\ hazard = FALSE
    /\ ex_stage = "llm_validation"
    /\ \E a \in AdmitPapers("e1"), b \in AdmitPapers("e2") :
          ex_input = [i \in AdmitIds |-> IF i = "e1" THEN a ELSE b]
    /\ ex_papers = ex_input
    /\ ex_pc = "start"
    /\ ex_todo = << >>
    /\ ex_queue = << >>
    /\ ex_item = [i \in AdmitIds |-> [state |-> "none", attempt |-> 0, rate_limited_only |-> TRUE,
                                      outcome |-> "none"]]
    /\ ex_sem = config_max_workers
    /\ ex_attempts = [i \in AdmitIds |-> 0]
NextAdmit == ExecStart
SpecAdmit == InitAdmit /\ [][NextAdmit]_vars

\* One call of run of the embedding stage, on papers as an earlier run's
\* embedding stage can have left them.
InitEmbed ==
    /\ PipelineInit
    /\ hazard = FALSE
    /\ ex_stage = "embedding"
    /\ ex_input \in {d \in EmbedInputs : \A i \in ExecIds : d[i].id = i}
    /\ ex_papers = ex_input
    /\ ex_pc = "start"
    /\ ex_todo = << >>
    /\ ex_queue = << >>
    /\ ex_item = [i \in ExecIds |-> [state |-> "none", attempt |-> 0, rate_limited_only |-> TRUE,
                                      outcome |-> "none"]]
    /\ ex_sem = 0
    /\ ex_attempts = [i \in ExecIds |-> 0]
SpecEmbed == InitEmbed /\ [][EmbedNext]_vars

\* One start of the process with any command line.
InitCli ==
    /\ store = {} /\ runtime = EmptyDict /\ pc = "idle" /\ stage = 0 /\ run = 0
    /\ feed = EmptyDict /\ called = {} /\ topic_cache = {} /\ prev = NoPrev
    /\ faults = {} /\ hazard = FALSE /\ req = NoReq /\ cache_papers = Some({})
    /\ \E d \in DateArgs, t \in TestArgs :
          cli = [date |-> d, test |-> t, pc |-> "start", status |-> 0,
                 scraper |-> "none", db |-> FALSE]
    /\ ExecIdle
SpecCli == InitCli /\ [][CliNext]_vars

\* One call of run of any stage that processes a dict of papers: a
\* concurrent stage or the embedding loop.
SpecWorkers ==
    /\ InitExec \/ InitEmbed
    /\ [][(ex_stage # "embedding" /\ ExecNext) \/ EmbedNext]_vars

\* One call of a request helper.
InitRequest ==
    /\ store = {} /\ runtime = EmptyDict /\ pc = "idle" /\ stage = 0 /\ run = 0
    /\ feed = EmptyDict /\ called = {} /\ topic_cache = {} /\ prev = NoPrev
    /\ faults = {} /\ hazard = FALSE /\ cli = NoCli /\ cache_papers = Some({})
    /\ \E h \in {"h_index", "verify_latex_source", "scraper"} :
          req = [NoReq EXCEPT !.helper = h]
    /\ ExecIdle
SpecRequest == InitRequest /\ [][Request]_vars

\* Step 7 of a run on day `run`, over any two files: database.sqlite holds
\* the rows of the run's papers as step 6 saved them and rows of earlier
\* runs with any last_generated; cache.sqlite has no papers table or one
\* with any rows.
InitStore ==
    /\ pc = "run" /\ stage = 7 /\ run \in 1..MaxRuns
    /\ feed = EmptyDict /\ called = {} /\ topic_cache = Topics /\ prev = NoPrev
    /\ faults = {} /\ hazard \in BOOLEAN /\ cli = NoCli /\ req = NoReq
    /\ LET processed(i) ==
              [Scraped(i) EXCEPT
                  !.intro_status = "intro_successful",
                  !.introduction_text = "introduction",
                  !.embedding_status = "completed",
                  !.score = [agentic_ai |-> Some(4000), reinforcement_learning |-> Some(3990)],
                  !.llm_validation_status = "completed",
                  !.relevance = [agentic_ai |-> "Moderately Relevant",
                                 reinforcement_learning |-> "not_validated"],
                  !.justification = [agentic_ai |-> "llm",
                                     reinforcement_learning |-> "below_threshold"],
                  !.llm_score_status = "completed",
                  !.recommendation_score = "Must Read",
                  !.h_index_status = "completed",
                  !.highest_h_index = Some(7)]
           Dates == {Null} \cup {"day" \o ToString(d) : d \in 0..MaxRuns}
       IN /\ \E ids \in SUBSET PaperIds \ {{}} :
                /\ runtime = [i \in ids |-> processed(i)]
                /\ \E old \in SUBSET (PaperIds \ ids) :
                      \E dates \in [old -> Dates] :
                         store = {runtime[i] : i \in ids}
                                 \cup {[processed(i) EXCEPT !.last_generated = dates[i]] :
                                          i \in old}
          /\ \/ cache_papers = NoValue
             \/ \E had \in SUBSET PaperIds :
                   \E dates \in [had -> Dates] :
                      cache_papers = Some({[id |-> i, last_generated |-> dates[i]] : i \in had})
    /\ ExecIdle
SpecStore == InitStore /\ [][CleanupStage]_vars

\* ================================================================= claims
StageIndex(name) == CHOOSE k \in 1..LastStage : StageNames[k] = name
SecondRunAfter(how) == pc # "idle" /\ prev.ended = how /\ prev.same_feed

\* C1: when the pipeline has run to its end and is run again over the same
\* input, the second run makes no outbound stage call (intro, embedding,
\* LLM validation, LLM scoring, h-index), whatever statuses the first left.
C1_SecondRunMakesNoCalls == SecondRunAfter("completed") => called = {}

\* C2: when the process was killed after the checkpoint of stage N and is
\* restarted over the same input, every stored paper is reloaded unchanged
\* and no stage up to N makes an outbound call.
C2_ResumeRedoesNothing ==
    SecondRunAfter("killed") =>
        /\ \A c \in called : StageIndex(c[1]) > prev.checkpoint
        /\ (pc = "save" /\ stage = 1) =>
              \A r \in store : r.id \in DOMAIN runtime => runtime[r.id] = r

\* C3: a status field of a stored paper that holds a terminal value keeps
\* that value through every later save, in this run and in later runs.
C3_TerminalStatusIsFinal ==
    [][\A r \in store : \A r2 \in store' :
          r2.id = r.id =>
             \A f \in StatusFields : IsTerminal(r, f) => StatusOf(r2, f) = StatusOf(r, f)]_vars

\* The LLM stages of the executor and their retry limits.
IsLLMStage == ex_stage \in {"llm_validation", "llm_scoring"}
stage_max_retries ==
    IF ex_stage = "llm_validation" THEN validation_max_retries ELSE scoring_max_retries
Admitted == exec_admitted(ex_stage, ex_input)
FailedItems ==
    {i \in DOMAIN ex_item :
        ex_item[i].state = "finished" /\ exec_status(ex_stage, ex_papers[i]) = "failed"}
Last(q) == q[Len(q)]
TokenLimitFailure(i) ==
    /\ ex_stage = "llm_scoring"
    /\ Last(ex_papers[i].errors) = "LLM scoring failed: token limit exceeded"
ErrorsGrownByOne(i) == Len(ex_papers[i].errors) = Len(ex_input[i].errors) + 1

\* C4 as stated: in LLM validation and LLM scoring an item that ends failed
\* was attempted exactly max_retries + 1 times and its error list has grown
\* by one entry per attempt or by one aggregate entry.
C4_FailedAfterAllAttempts ==
    IsLLMStage =>
        \A i \in FailedItems :
            /\ ex_attempts[i] = stage_max_retries + 1
            /\ \/ ErrorsGrownByOne(i)
               \/ Len(ex_papers[i].errors) = Len(ex_input[i].errors) + ex_attempts[i]

\* C4 amended: an item that ends failed, other than on a token limit error in
\* LLM scoring, was attempted exactly max_retries + 1 times; a token limit
\* error in LLM scoring ends the item at the attempt that met it; either way
\* the error list has grown by exactly one entry.
C4_FailedAfterAllAttemptsUnlessTokenLimit ==
    IsLLMStage =>
        \A i \in FailedItems :
            /\ ErrorsGrownByOne(i)
            /\ IF TokenLimitFailure(i)
               THEN ex_attempts[i] \in 1..(stage_max_retries + 1)
               ELSE ex_attempts[i] = stage_max_retries + 1
C4_Witness ==
    /\ ex_stage = "llm_scoring"
    /\ \E i \in FailedItems : ~TokenLimitFailure(i) /\ ex_attempts[i] = scoring_max_retries + 1
    /\ \E i \in FailedItems : TokenLimitFailure(i) /\ ex_attempts[i] = 2

\* C5: in LLM validation and LLM scoring never more than max_workers tasks
\* are inside the worker, and never more than max_workers attempts are in
\* progress; the other submitted papers wait.
C5_AtMostKWorkers ==
    IsLLMStage =>
        /\ Cardinality(in_semaphore) <= max_workers
        /\ Cardinality(pool_busy) <= max_workers
C5_Witness ==
    /\ ex_stage = "llm_validation"
    /\ Cardinality(Admitted) > max_workers
    /\ Cardinality({i \in DOMAIN ex_item : ex_item[i].state = "attempting"}) = max_workers
    /\ ex_queue # << >>

\* The fields a successful call sets, and the paper the filter handed over.
Filtered ==
    IF ex_stage = "llm_validation"
    THEN identify_papers_for_validation(ex_input, similarity_threshold)
    ELSE identify_papers_for_scoring(ex_input)
ResultFieldsSet(i) ==
    IF ex_stage = "llm_validation"
    THEN \A t \in Topics :
            IF ValueOf(ex_input[i].score[t]) >= similarity_threshold
            THEN /\ ex_papers[i].relevance[t] = "Highly Relevant"
                 /\ ex_papers[i].justification[t] = "llm"
            ELSE /\ ex_papers[i].relevance[t] = "not_validated"
                 /\ ex_papers[i].justification[t] = "below_threshold"
    ELSE ex_papers[i].recommendation_score = "Should Read"
OnlyStageFieldsChanged(i) ==
    [ex_papers[i] EXCEPT !.relevance = Filtered[i].relevance,
                         !.justification = Filtered[i].justification,
                         !.recommendation_score = Filtered[i].recommendation_score,
                         !.llm_validation_status = Filtered[i].llm_validation_status,
                         !.llm_score_status = Filtered[i].llm_score_status]
        = Filtered[i]

\* C6: when run has returned and admitted paper A ended failed, every other
\* admitted paper B was attempted; a B whose call succeeded is completed with
\* its result fields set and nothing else changed, and A is failed with one
\* more error.
C6_FailureDoesNotTouchSiblings ==
    (IsLLMStage /\ ex_pc = "returned") =>
        \A a \in FailedItems : \A b \in Admitted \ {a} :
            /\ ex_attempts[b] >= 1
            /\ exec_status(ex_stage, ex_papers[b]) \in {"completed", "failed"}
            /\ exec_status(ex_stage, ex_papers[b]) = "completed" =>
                  /\ ResultFieldsSet(b)
                  /\ OnlyStageFieldsChanged(b)
                  /\ ex_papers[b].errors = ex_input[b].errors
            /\ ErrorsGrownByOne(a)
C6_Witness ==
    /\ ex_stage = "llm_scoring"
    /\ ex_pc = "returned"
    /\ \E a \in FailedItems : \E b \in Admitted \ {a} :
          /\ ex_papers[b].llm_score_status = "completed"
          /\ ex_attempts[a] = scoring_max_retries + 1

\* C7: LLM validation admits a paper with embedding completed and validation
\* not yet terminal exactly when some topic score is not None and is at
\* least similarity_threshold.
C7_AdmittedIffAtOrAboveThreshold ==
    (ex_stage = "llm_validation" /\ ex_pc # "start") =>
        \A i \in DOMAIN ex_input :
            LET p == ex_input[i] IN
            (p.embedding_status = "completed"
                /\ p.llm_validation_status \notin {"completed", "failed"}) =>
               (i \in SeqToSet(ex_todo)
                   <=> \E t \in Topics :
                          /\ p.score[t] # NoValue
                          /\ p.score[t][1] >= similarity_threshold)
C7_Witness ==
    /\ ex_stage = "llm_validation" /\ ex_pc # "start"
    /\ ex_input["e1"].score =
          [t \in Topics |-> IF t = "agentic_ai" THEN Some(similarity_threshold) ELSE NoValue]
    /\ ex_input["e2"].score = [t \in Topics |-> Some(3990)]
    /\ ex_input["e1"].llm_validation_status = "not_validated"
    /\ ex_input["e2"].llm_validation_status = "not_validated"
    /\ ex_input["e1"].embedding_status = "completed"
    /\ ex_input["e2"].embedding_status = "completed"
    /\ ex_todo = << "e1" >>

\* C8: the store never holds two rows with the same id, and after a
\* checkpoint the row of every paper of the run is the paper as saved.
C8_OneRowPerId ==
    /\ \A r1 \in store : \A r2 \in store : r1.id = r2.id => r1 = r2
    /\ (pc = "run" /\ stage \in 2..(LastFatalStage + 1)) =>
          \A i \in DOMAIN runtime : {r \in store : r.id = i} = {runtime[i]}
C8_Witness ==
    /\ run = 2 /\ pc = "run" /\ stage = 4
    /\ \E i \in DOMAIN runtime : runtime[i].embedding_status = "completed"
    /\ prev.ended = "completed"

\* C9: a call of LLM validation is made only for a paper whose
\* embedding_status is completed, a call of LLM scoring only for one whose
\* llm_validation_status is completed, and a call of h-index fetching only
\* for one whose llm_score_status is completed.
C9_UpstreamCompleted ==
    \A c \in called :
        /\ c[1] = "llm_validation" => runtime[c[2]].embedding_status = "completed"
        /\ c[1] = "llm_scoring" => runtime[c[2]].llm_validation_status = "completed"
        /\ c[1] = "h_index" => runtime[c[2]].llm_score_status = "completed"
C9_Witness ==
    /\ \E i \in DOMAIN runtime :
          {<< "llm_validation", i >>, << "llm_scoring", i >>, << "h_index", i >>} \subseteq called
    /\ \E j \in DOMAIN runtime :
          /\ runtime[j].llm_score_status = "failed"
          /\ << "h_index", j >> \notin called
    /\ pc = "save" /\ stage = LastFatalStage

\* C10: when run of a concurrent stage has returned, the dict it returns has
\* every key of the dict it was given, and no admitted paper is still in the
\* pending status of the stage.
C10_ReturnsAfterAllTerminal ==
    ex_pc = "returned" =>
        /\ DOMAIN ex_papers = DOMAIN ex_input
        /\ \A i \in Admitted :
              /\ ex_item[i].state = "finished"
              /\ exec_status(ex_stage, ex_papers[i]) # exec_status(ex_stage, ex_input[i])
              /\ exec_status(ex_stage, ex_papers[i]) \in
                    (IF ex_stage = "intro"
                     THEN {"intro_successful", "no_latex_source", "no_intro_found",
                           "extraction_failed"}
                     ELSE {"completed", "failed"})
C10_Witness ==
    /\ ex_pc = "returned"
    /\ ex_stage = "intro"
    /\ Cardinality(Admitted) > max_workers
    /\ \E i \in Admitted : ex_papers[i].intro_status = "extraction_failed"
    /\ \E i \in Admitted : ex_papers[i].intro_status = "no_latex_source"

\* ------------------------------------------------------------------ C11
\* The papers of the dict whose row in the store is the paper as it is in
\* memory.
Stored == {i \in DOMAIN runtime : runtime[i] \in store}
\* A stage's run is under way in this step (it is not the scraper's).
StageRuns == pc = "run" /\ stage > 1 /\ pc' # "idle"

C12_SaveFailureEndsTheRun ==
    faults \cap SaveFaultNames # {} => (pc = "idle" /\ prev.ended = "failed")

\* ------------------------------------------------------------------ C13
\* C13: when KeyboardInterrupt ends a run, the papers as they are in memory
\* at that moment are saved before the process exits: after the interrupt
\* every paper of the dict has its row in the store.
C13_InterruptStillSaves ==
    [][ ("interrupt" \in faults' /\ "interrupt" \notin faults) =>
            \A i \in DOMAIN runtime : runtime[i] \in store' ]_vars

\* ------------------------------------------------------------------ C14
\* C14: a call of save_papers is atomic. A step leaves the store as it was,
\* or writes the row of every paper of the dict it saves; when the save
\* raises at one of the papers, none of the rows written before it in the
\* same call is in the store afterwards.
C14_SaveIsAllOrNothing ==
    [][ /\ \/ store' = store
           \/ store' = save_papers(store, runtime)
           \/ store' = save_papers(store, runtime')
        /\ (faults' \ faults) \cap SaveFaultNames # {} => store' = store ]_vars
C14_Witness ==
    /\ pc = "idle" /\ SaveFault(3) \in faults /\ prev.checkpoint = 2
    /\ \A i \in PaperIds :
          \E r \in store : r.id = i /\ r.embedding_status = "not_embedded"
    /\ \E r \in store : r.intro_status = "intro_successful"

\* ------------------------------------------------------------------ C15
\* A save_to_database call of main returns normally in this step.
SaveReturns ==
    \/ pc = "save" /\ pc' = "run"
    \/ pc = "run" /\ ~stage_is_fatal(stage) /\ pc' # "idle" /\ faults' = faults

\* C15: when the save after a stage returns, every paper of the dict, the
\* ones the stage did not touch included, has exactly one row in the store
\* and that row is the paper as it is in memory.
C15_CheckpointWritesEveryPaper ==
    [][ SaveReturns =>
           \A i \in DOMAIN runtime' : {r \in store' : r.id = i} = {runtime'[i]} ]_vars
C15_Witness ==
    /\ pc = "run" /\ stage = 3
    /\ \E i \in DOMAIN runtime :
          runtime[i].scraper_status = "scraping_failed" /\ runtime[i] \in store
    /\ \E j \in DOMAIN runtime :
          runtime[j].intro_status = "intro_successful" /\ runtime[j] \in store

\* ------------------------------------------------------------------ C16
\* The status field stage n writes and the papers its run admits.
PipelineStageField(n) ==
    CASE n = 2 -> "intro_status"
      [] n = 4 -> "llm_validation_status"
      [] n = 5 -> "llm_score_status"
      [] n = 6 -> "h_index_status"
PipelineAdmitted(n) ==
    CASE n = 2 -> {i \in DOMAIN runtime : intro_needs_request(runtime[i])}
      [] n = 4 -> validation_admitted(runtime, similarity_threshold)
      [] n = 5 -> scoring_admitted(runtime)
      [] n = 6 -> identify_target_papers(runtime)
\* An error is recorded on paper i in this step.
ErrorRecorded(i) ==
    /\ i \in DOMAIN runtime \cap DOMAIN runtime'
    /\ Len(runtime'[i].errors) > Len(runtime[i].errors)

C17_TokenLimitFailsAtOnce ==
    IsLLMStage =>
        \A i \in DOMAIN ex_item :
            ex_item[i].state = "attempting" =>
                LET step == exec_attempt(ex_stage, ex_papers[i], ex_item[i].attempt,
                                         "token_limit")
                IN /\ ~step.again
                   /\ exec_status(ex_stage, step.paper) = "failed"

\* ------------------------------------------------------------------ C18
\* C18: a rate-limited failure only adds a delay. Whatever attempt is in
\* progress, a rate-limited failure of it takes the extra delay and is
\* otherwise handled as any other failure of that attempt (same retry, same
\* backoff, one attempt used); and a paper that ends failed after nothing
\* but rate-limited failures was attempted exactly max_retries + 1 times.
C18_RateLimitCountsAsOneAttempt ==
    IsLLMStage =>
        /\ \A i \in FailedItems :
              ex_item[i].rate_limited_only => ex_attempts[i] = stage_max_retries + 1
        /\ \A i \in DOMAIN ex_item :
              ex_item[i].state = "attempting" =>
                 LET limited == exec_attempt(ex_stage, ex_papers[i], ex_item[i].attempt,
                                             "rate_limit")
                     other == exec_attempt(ex_stage, ex_papers[i], ex_item[i].attempt,
                                           "error")
                 IN /\ limited.extra_delay /\ ~other.extra_delay
                    /\ limited.again = other.again
                    /\ limited.backoff = other.backoff
C18_Witness ==
    /\ ex_stage = "llm_scoring"
    /\ \E i \in FailedItems :
          /\ ex_item[i].rate_limited_only
          /\ ex_attempts[i] = scoring_max_retries + 1
          /\ Last(ex_papers[i].errors) = ScoringFailure("rate_limit")

\* ------------------------------------------------------------------ C19
\* C19: when the run of database cleanup or of the Slack notification
\* raises, the pipeline goes on to the next stage or to the final summary,
\* and the papers in memory are exactly what they were before that stage
\* started.
C19_NonFatalFailureChangesNothing ==
    [][ \A n \in (LastFatalStage + 1)..LastStage :
           (StageNames[n] \in faults' /\ StageNames[n] \notin faults) =>
               /\ runtime' = runtime
               /\ IF n = LastStage THEN pc' = "done" ELSE pc' = "run" /\ stage' = n + 1 ]_vars

\* ------------------------------------------------------------------ C20
\* C20: when the embedding stage cannot compute a topic embedding, or an
\* LLM stage finds no API key, the stage raises before it has changed a
\* paper and the run ends there with exit status 1: no later stage runs,
\* and the store is left as the previous stage's save wrote it, which is
\* the papers as they were in memory when the stage began.
C20_FatalStageAbortsTheRun ==
    [][ \A n \in {3, 4, 5} :
           (StageNames[n] \in faults' /\ StageNames[n] \notin faults) =>
               /\ pc = "run" /\ stage = n
               /\ pc' = "idle"
               /\ prev'.ended = "failed" /\ prev'.checkpoint = n - 1
               /\ store' = store
               /\ \A i \in DOMAIN runtime : {r \in store' : r.id = i} = {runtime[i]} ]_vars
C20_Witness ==
    /\ pc = "idle" /\ prev.ended = "failed" /\ prev.checkpoint = 3
    /\ "llm_validation" \in faults
    /\ \E r \in store :
          r.embedding_status = "completed" /\ r.llm_validation_status = "not_validated"

\* ------------------------------------------------------------------ C21
\* The message _process_batch records for a failed batch call.
BatchFailureMessage(answer) ==
    IF answer = "token" THEN "embedding_token_limit_exceeded"
    ELSE "Embedding generation failed"
\* The batch number and the answer the ghost record holds for paper i.
BatchOf(i) == ex_item[i].attempt
FailedBatchItems == {i \in DOMAIN ex_item : ex_item[i].state \in {"failed", "token"}}

\* C21: when the embeddings call of a batch fails, every paper of that
\* batch is failed with one more error, the same for all of them, and stays
\* so until run returns; a paper of another batch is as its own batch left
\* it: completed with no new error when its call and its item succeeded.
C21_BatchFailsTogether ==
    ex_stage = "embedding" =>
        \A i \in FailedBatchItems :
            /\ \A j \in DOMAIN ex_item :
                  BatchOf(j) = BatchOf(i) =>
                     /\ ex_item[j].state = ex_item[i].state
                     /\ ex_papers[j].embedding_status = "failed"
                     /\ ex_papers[j].errors =
                           Append(ex_input[j].errors, BatchFailureMessage(ex_item[i].state))
                     /\ ex_papers[j].score = ex_input[j].score
            /\ \A j \in DOMAIN ex_item :
                  BatchOf(j) = 0 =>
                     \/ j \in SeqToSet(ex_todo) /\ ex_papers[j] = ex_input[j]
                     \/ is_embedding_completed(ex_input[j])
                           /\ ex_papers[j] \in {ex_input[j],
                                                round_similarity_scores(ex_input)[j]}
            /\ \A j \in DOMAIN ex_item :
                  (BatchOf(j) \notin {0, BatchOf(i)} /\ ex_item[j].state = "ok") =>
                     \/ /\ ex_papers[j].embedding_status = "completed"
                        /\ ex_papers[j].errors = ex_input[j].errors
                     \/ /\ ex_papers[j].embedding_status = "failed"
                        /\ ex_papers[j].errors =
                              Append(ex_input[j].errors, "Error calculating similarity scores")
C21_Witness ==
    /\ ex_stage = "embedding" /\ ex_pc = "returned"
    /\ ex_item["e1"].state = "failed" /\ BatchOf("e1") = 1 /\ BatchOf("e2") = 1
    /\ ex_papers["e1"].embedding_status = "failed"
    /\ ex_papers["e2"].embedding_status = "failed"
    /\ BatchOf("e3") = 2 /\ ex_papers["e3"].embedding_status = "completed"
    /\ ex_papers["e4"].embedding_status = "failed" /\ BatchOf("e4") = 2

\* ------------------------------------------------------------------ C22
\* Sequence a is b with zero or more elements left out.
RECURSIVE IsSubsequence(_, _)
IsSubsequence(a, b) ==
    IF a = << >> THEN TRUE
    ELSE IF b = << >> THEN FALSE
    ELSE IF Head(a) = Head(b) THEN IsSubsequence(Tail(a), Tail(b))
    ELSE IsSubsequence(a, Tail(b))

\* C22: the error list of a paper is append-only. Whatever step is taken,
\* in this run or a later one, re-ingestion of a stored id included, every
\* error string a paper held (in the store, in memory) is still there
\* afterwards, in the same relative order.
C22_ErrorsAreNeverCleared ==
    [][ /\ \A r \in store : \A r2 \in store' :
              r2.id = r.id => IsSubsequence(r.errors, r2.errors)
        /\ \A i \in DOMAIN runtime \cap DOMAIN runtime' :
              IsSubsequence(runtime[i].errors, runtime'[i].errors)
        /\ \A r \in store : r.id \in DOMAIN runtime' =>
              IsSubsequence(r.errors, runtime'[r.id].errors) ]_vars

\* ------------------------------------------------------------------ C23
\* C23: the result fields of a stage hold values only when the stage's
\* status is completed. In every row a checkpoint has written, a stage
\* whose status is pending, failed or not eligible has its result fields
\* at the values a new Paper has.
C23_ResultsOnlyWhenCompleted ==
    \A r \in store :
        /\ ~is_intro_successful(r) => r.introduction_text = Paper(r.id, r.pdf_url).introduction_text
        /\ ~is_embedding_completed(r) => r.score = Paper(r.id, r.pdf_url).score
        /\ ~is_llm_validation_completed(r) =>
              /\ r.relevance = Paper(r.id, r.pdf_url).relevance
              /\ r.justification = Paper(r.id, r.pdf_url).justification
        /\ r.llm_score_status # "completed" =>
              r.recommendation_score = Paper(r.id, r.pdf_url).recommendation_score
        /\ r.h_index_status # "completed" =>
              r.highest_h_index = Paper(r.id, r.pdf_url).highest_h_index

\* ------------------------------------------------------------------ C24
\* The papers of the dict with embedding completed, validation not yet
\* terminal, and no topic score at or above the threshold (None included).
NoTopicAtThreshold ==
    {i \in DOMAIN ex_input :
        /\ ex_input[i].embedding_status = "completed"
        /\ ex_input[i].llm_validation_status = "not_validated"
        /\ \A t \in Topics :
              \/ ex_input[i].score[t] = NoValue
              \/ ValueOf(ex_input[i].score[t]) < similarity_threshold}
\* Paper i is never in the hands of a worker and no call is made for it.
NeverSubmitted(i) ==
    /\ i \notin SeqToSet(ex_todo) \cup SeqToSet(ex_queue)
    /\ ex_item[i].state = "none"
    /\ ex_attempts[i] = 0

\* C24 as stated: such a paper is never submitted to a validation worker,
\* no call is made for it, it is counted apart from the already validated
\* ones, and the filter sets its validation status to a terminal value that
\* says not eligible (neither completed nor failed).
C24_BelowThresholdIsNotEligible ==
    (ex_stage = "llm_validation" /\ ex_pc # "start") =>
        \A i \in NoTopicAtThreshold :
            /\ NeverSubmitted(i)
            /\ validation_skip_reason(ex_input[i], similarity_threshold)
                  = "no_topics_above_threshold"
            /\ ex_papers[i].llm_validation_status \notin {"not_validated", "completed", "failed"}

\* C24 amended: such a paper is never submitted to a validation worker, no
\* call is made for it, it is counted apart from the already validated
\* ones, and the filter sets its validation status to completed, with
\* below_threshold as the justification of every topic and no verdict.
C24_BelowThresholdIsCompletedWithoutCall ==
    (ex_stage = "llm_validation" /\ ex_pc # "start") =>
        \A i \in NoTopicAtThreshold :
            /\ NeverSubmitted(i)
            /\ validation_skip_reason(ex_input[i], similarity_threshold)
                  = "no_topics_above_threshold"
            /\ ex_papers[i] =
                  [ex_input[i] EXCEPT !.llm_validation_status = "completed",
                                      !.justification = [t \in Topics |-> "below_threshold"]]
C24_Witness ==
    /\ ex_stage = "llm_validation" /\ ex_pc = "returned"
    /\ "e4" \in NoTopicAtThreshold
    /\ ex_input["e4"].score["agentic_ai"] = NoValue
    /\ ex_papers["e4"].llm_validation_status = "completed"
    /\ ex_attempts["e4"] = 0
    /\ \A i \in ExecIds \ {"e4"} : ex_attempts[i] >= 1

\* ------------------------------------------------------------------ C25
\* The papers whose worker met f failures it retried, 1 <= f <=
\* max_retries, and then a successful call.
SucceededAfterRetries ==
    {i \in DOMAIN ex_item :
        /\ ex_item[i].state = "finished"
        /\ ex_item[i].outcome = "ok"
        /\ ex_item[i].attempt \in 1..stage_max_retries}

\* C25: an admitted paper whose worker fails f times with an error the
\* loop retries (1 <= f <= max_retries) and then succeeds is completed with
\* its result fields set, after f + 1 calls, and its error list is what it
\* was when run was called: the failed attempts left no entry.
C25_RetriedThenSucceededLeavesNoError ==
    IsLLMStage =>
        \A i \in SucceededAfterRetries :
            /\ i \in Admitted
            /\ exec_status(ex_stage, ex_papers[i]) = "completed"
            /\ ResultFieldsSet(i)
            /\ ex_papers[i].errors = ex_input[i].errors
            /\ ex_attempts[i] = ex_item[i].attempt + 1
C25_Witness ==
    /\ ex_pc = "returned"
    /\ \E i \in SucceededAfterRetries :
          ex_stage = "llm_scoring" /\ ex_item[i].attempt = scoring_max_retries
    /\ \E j \in SucceededAfterRetries : ex_item[j].attempt = 1

\* ------------------------------------------------------------------ C26
\* The command line does not select exactly one valid mode: neither or both
\* arguments, a --date that is not a date in YYYY-MM-DD form, or a --test
\* that does not name an existing file.
InvalidSelection ==
    \/ cli.date.given = cli.test.given
    \/ cli.date.given /\ ~strptime_ok(cli.date)
    \/ cli.test.given /\ (cli.test.empty \/ ~cli.test.exists)

\* C26: with such a command line no scraper is called and no database is
\* created, and once main is past its argument checks the process has
\* exited with a status other than 0.
C26_InvalidSelectionExitsBeforeAnyStage ==
    InvalidSelection =>
        /\ cli.scraper = "none"
        /\ ~cli.db
        /\ cli.pc \in {"start", "parsed", "exited"}
        /\ cli.pc = "exited" => cli.status # 0

\* ------------------------------------------------------------------ C27
\* The run is over in this step: main returns after its last stage, or an
\* enrichment stage has raised and main exits with status 1.
RunEnds ==
    /\ pc # "idle" /\ pc' = "idle"
    /\ \/ prev'.ended = "completed"
       \/ /\ prev'.ended = "failed"
          /\ \E n \in 2..LastFatalStage : StageNames[n] \in faults'

\* C27: every run that has started its stages ends with the final summary.
\* Whether the run completes or a fatal stage aborts it, the step that
\* ends it is taken after the summary (the counts of completed and failed
\* papers per stage and the total, over the papers in memory) was logged,
\* which main does when it reaches its last lines.
C27_EveryRunEndsWithTheSummary ==
    [][ RunEnds => (pc = "done" /\ DOMAIN runtime = DOMAIN feed) ]_vars

\* ------------------------------------------------------------------ C28
\* The verdicts LLMScoring.run names as enough for scoring.
RelevantEnough == {"Highly Relevant", "Moderately Relevant", "Tangentially Relevant"}

\* C28: when the scoring stage runs, a paper with validation completed and
\* scoring not yet terminal is handed to a worker (a call is made for it)
\* exactly when one of its verdicts is Highly, Moderately or Tangentially
\* Relevant; every other such paper is marked not_relevant_enough and no
\* call is made for it.
C28_ScoringAdmitsDownToTangentially ==
    [][ (pc = "run" /\ stage = 5 /\ pc' = "save") =>
           \A i \in DOMAIN runtime :
               (is_llm_validation_completed(runtime[i]) /\ ~can_skip_llm_scoring(runtime[i])) =>
                  IF \E t \in Topics : runtime[i].relevance[t] \in RelevantEnough
                  THEN /\ << "llm_scoring", i >> \in called'
                       /\ runtime'[i].llm_score_status \in {"completed", "failed"}
                  ELSE /\ << "llm_scoring", i >> \notin called'
                       /\ runtime'[i].llm_score_status = "not_relevant_enough" ]_vars

\* ------------------------------------------------------------------ C29
\* The workers in the backoff sleep between two attempts.
InBackoff == {i \in DOMAIN ex_item : ex_item[i].state = "sleeping"}

\* C29: a worker sleeping in backoff does not block the other papers.
\* With max_workers = k and more than k papers submitted, whenever k of
\* them are in their backoff sleep and another is still queued, the queued
\* one can go on: a pool thread can take it, the first step towards its
\* first attempt.
C29_BackoffDoesNotBlockQueuedItems ==
    (IsLLMStage /\ Cardinality(InBackoff) = max_workers /\ ex_queue # << >>) =>
        ENABLED PickUp

\* ------------------------------------------------------------------ C30
\* A step of run that hands a task for paper i to the pool
\* (executor.submit), and a step in which a pool thread begins the worker
\* invocation of the oldest task.
Handed(i) == ex_item[i].state # "queued" /\ ex_item'[i].state = "queued"
Begins(i) ==
    /\ ex_pc = "batch" /\ ex_pc' = "batch"
    /\ ex_queue # << >> /\ Head(ex_queue) = i /\ ex_queue' = Tail(ex_queue)

\* A step of a worker (not of run's main thread) that changes paper i.
WorkerWrites(i) ==
    /\ ex_pc = "batch" /\ ex_pc' = "batch"
    /\ ex_papers'[i] # ex_papers[i]

\* The papers a worker holds, and the tasks not yet begun.
InFlight == pool_busy
Pending == ex_todo \o ex_queue

\* No paper has two tasks outstanding: a paper is at most once among the
\* tasks still to begin, a task in the queue belongs to a paper no worker
\* holds, and only one paper's fields change in a step of a worker.
OneWorkerAtATime ==
    /\ \A k, l \in 1..Len(Pending) : Pending[k] = Pending[l] => k = l
    /\ \A k \in 1..Len(ex_queue) : ex_item[ex_queue[k]].state = "queued"
    /\ \A k \in 1..Len(ex_todo) : ex_todo[k] \notin InFlight

\* The papers run hands to a worker: the admitted ones (every paper for the
\* header checks of the intro stage).
HandedOver == IF ex_stage = "intro" THEN DOMAIN ex_input ELSE Admitted

\* When run returns every paper it handed over has been through its worker,
\* and no other paper was ever handed to one.
AllHandedOnce ==
    /\ ex_pc = "returned" => \A i \in HandedOver : ex_item[i].state = "finished"
    /\ \A i \in ExecIds \ HandedOver : ex_item[i].state = "none"

\* C30 as stated: within one stage execution a paper is handed to a worker
\* exactly once (only a paper never handed before is handed), a worker
\* begins only on a paper no other worker holds, and every admitted paper is
\* handed.
C30_ExactlyOneInvocationPerStage ==
    [][ /\ OneWorkerAtATime' /\ AllHandedOnce'
        /\ \A i \in ExecIds :
              /\ Handed(i) => ex_item[i].state = "none"
              /\ Begins(i) => ex_item[i].state = "queued"
              /\ WorkerWrites(i) => i \in InFlight ]_vars

\* C30, amended: a paper is handed to exactly one worker invocation per
\* pool and never to two at the same time. The validation and the scoring
\* stage hand each admitted paper over once. The intro stage hands every
\* paper to a header check and then, once every check is over, each paper
\* that has LaTeX to a download: two invocations, one after the other.
C30_OneInvocationPerPoolNeverTwoAtOnce ==
    [][ /\ OneWorkerAtATime' /\ AllHandedOnce'
        /\ \A i \in ExecIds :
              /\ Handed(i) =>
                    \/ ex_item[i].state = "none"
                    \/ /\ ex_stage = "intro" /\ ex_pc = "between"
                       /\ ex_item[i].state = "finished" /\ ex_item[i].attempt = 1
                       /\ InFlight = {} /\ ex_queue = << >>
                       /\ ex_attempts[i] <= 1
              /\ Begins(i) => ex_item[i].state = "queued"
              /\ WorkerWrites(i) => i \in InFlight ]_vars

\* Two workers at work on two papers at once, one of them on a retry, in a
\* stage that had three papers to hand over.
C30_Witness ==
    /\ IsLLMStage
    /\ Cardinality(HandedOver) = 3
    /\ \E i, j \in HandedOver :
          /\ i # j
          /\ ex_item[i].state = "attempting" /\ ex_item[i].attempt >= 1
          /\ ex_item[j].state = "attempting"

\* ------------------------------------------------------------------ C31
\* Paper i as the stage would treat it were it the only paper of the dict:
\* what the filter leaves of it, whether it is handed over, and what the
\* worker leaves of it given the outcomes of the paper's own calls.
Alone(i) == [j \in {i} |-> ex_input[i]]
AloneFiltered(i) ==
    CASE ex_stage = "llm_validation" ->
            identify_papers_for_validation(Alone(i), similarity_threshold)[i]
      [] ex_stage = "llm_scoring" -> identify_papers_for_scoring(Alone(i))[i]
      [] OTHER -> ex_input[i]
AloneAdmitted(i) ==
    IF ex_stage = "embedding" THEN i \in embedding_to_process(Alone(i))
    ELSE IF ex_stage = "intro" THEN TRUE
    ELSE i \in exec_admitted(ex_stage, Alone(i))
AloneRounded(p, i) == round_similarity_scores([j \in {i} |-> p])[i]
AloneResults(i) ==
    CASE ex_stage \in {"llm_validation", "llm_scoring"} ->
            {exec_attempt(ex_stage, AloneFiltered(i), ex_item[i].attempt,
                          ex_item[i].outcome).paper}
      [] ex_stage = "intro" ->
            IF ex_item[i].attempt = 0
            THEN {check_latex_availability(ex_input[i], FALSE).paper}
            ELSE {ex_input[i]} \cup {intro_process(ex_input[i], o) :
                                       o \in IntroOutcomes \ {"no_source"}}
      [] ex_stage = "embedding" ->
            {IF ex_pc = "returned" THEN AloneRounded(q, i) ELSE q :
                q \in {process_batch_item(ex_input[i], ex_item[i].state, s, e) :
                         s \in PipelineItemScores, e \in BOOLEAN}}
WorkerDone(i) ==
    IF ex_stage = "embedding" THEN ex_item[i].state \in BatchAnswers
    ELSE ex_item[i].state = "finished"

TransientAnswers == {"timeout", "5xx", "429"}
LastAnswer == req.answers[Len(req.answers)]

\* C32: every transient failure of an outbound call is retried with backoff
\* up to the configured limit before the item fails. For the h-index request
\* helper: when it gives up (returns None) on a transient failure, it has
\* sent max_retries + 1 requests and slept between each two of them.
C32_TransientFailuresAreRetried ==
    (/\ req.helper = "h_index" /\ req.result = "None"
     /\ LastAnswer \in TransientAnswers) =>
        /\ Len(req.answers) = h_index_max_retries + 1
        /\ req.sleeps = h_index_max_retries

\* ------------------------------------------------------------------ C33
\* The papers whose worker is in the backoff sleep before another attempt
\* after a reply that failed XML or schema parsing.
RetryingAfterMalformed ==
    {i \in DOMAIN ex_item :
        ex_item[i].state = "sleeping" /\ ex_item[i].outcome = "malformed"}

\* C33: a malformed reply makes the paper's stage status failed at once,
\* with no retry: no worker goes into the backoff sleep after one, and a
\* paper that finished on a malformed reply is failed.
C33_MalformedReplyFailsWithoutRetry ==
    IsLLMStage =>
        /\ RetryingAfterMalformed = {}
        /\ \A i \in DOMAIN ex_item :
              (ex_item[i].state = "finished" /\ ex_item[i].outcome = "malformed") =>
                  exec_status(ex_stage, ex_papers[i]) = "failed"

\* ------------------------------------------------------------------ C34
\* The papers of the batches whose embeddings call failed (other than on
\* the token limit, which no retry can cure).
InFailedBatch == {i \in DOMAIN ex_item : ex_item[i].state = "failed"}

\* C34: in the embedding stage a batch call that fails is re-attempted up
\* to EMBEDDING max_retries before its papers are marked failed: a paper
\* failed by its batch has been part of max_retries + 1 calls.
C34_FailedBatchWasRetried ==
    ex_stage = "embedding" =>
        \A i \in InFailedBatch :
            ex_papers[i].embedding_status = "failed" =>
                ex_attempts[i] = embedding_max_retries + 1

\* ------------------------------------------------------------------ C35
\* The answers a helper's loop goes round again on, and its retry limit.
RetriesOn(helper) ==
    CASE helper = "h_index" -> {"429", "timeout"}
      [] helper = "verify_latex_source" -> {"timeout", "connection_error"}
      [] helper = "scraper" -> RequestAnswers \ {"200"}
      [] OTHER -> {}
MaxRetriesOf(helper) ==
    CASE helper = "h_index" -> h_index_max_retries
      [] helper = "verify_latex_source" -> verify_latex_max_retries
      [] helper = "scraper" -> scraper_max_retries
      [] OTHER -> 0
EveryRequestFailedRetryably ==
    /\ req.result # "running"
    /\ \A k \in 1..Len(req.answers) : req.answers[k] \in RetriesOn(req.helper)

\* C35: each retrying request helper sends exactly max_retries + 1 requests
\* when every request fails with an error it retries on, and never more
\* than max_retries + 1 requests.
C35_HelpersMakeMaxRetriesPlusOneRequests ==
    req.helper # "none" =>
        /\ Len(req.answers) <= MaxRetriesOf(req.helper) + 1
        /\ EveryRequestFailedRetryably =>
              Len(req.answers) = MaxRetriesOf(req.helper) + 1

\* ------------------------------------------------------------------ C36
\* The fields of a paper that belong to stage n (errors is shared by all).
FieldsOfStage(n) ==
    CASE n = 1 -> {"id", "pdf_url", "scraper_status"}
      [] n = 2 -> {"intro_status", "introduction_text"}
      [] n = 3 -> {"embedding_status", "score"}
      [] n = 4 -> {"llm_validation_status", "relevance", "justification"}
      [] n = 5 -> {"llm_score_status", "recommendation_score"}
      [] n = 6 -> {"h_index_status", "highest_h_index"}
      [] n = 7 -> {"last_generated"}
      [] n = 8 -> {}
\* Stage n skips paper p as already terminal.
SkippedAsTerminal(n, p) ==
    CASE n = 2 -> can_skip_intro_extraction(p)
      [] n = 3 -> is_embedding_completed(p)
      [] n = 4 -> p.llm_validation_status \in {"completed", "failed"}
      [] n = 5 -> can_skip_llm_scoring(p)
      [] n = 6 -> can_skip_h_index_fetching(p)
      [] OTHER -> FALSE
\* Stage n's run is this step.
StageChangesDict(n) == pc = "run" /\ stage = n /\ pc' # "idle" /\ runtime' # runtime

\* C36: no stage overwrites another stage's data. When the run of stage S
\* changes the dict, every paper keeps the status field and the result
\* fields of every other stage, and a paper S skips as already terminal is
\* left entirely unchanged; and the scraper, which builds the dict from the
\* feed and the stored rows, hands on the status and result fields the
\* enrichment stages wrote to a paper's stored row.
C36_StagesKeepToTheirOwnFields ==
    [][ /\ \A n \in 2..LastStage :
              StageChangesDict(n) =>
                 /\ DOMAIN runtime' = DOMAIN runtime
                 /\ \A i \in DOMAIN runtime :
                       /\ \A m \in (1..LastStage) \ {n} : \A f \in FieldsOfStage(m) :
                             runtime'[i][f] = runtime[i][f]
                       /\ SkippedAsTerminal(n, runtime[i]) => runtime'[i] = runtime[i]
        /\ (pc = "run" /\ stage = 1 /\ pc' = "save") =>
              \A r \in store : r.id \in DOMAIN runtime' =>
                 \A m \in 2..6 : \A f \in FieldsOfStage(m) : runtime'[r.id][f] = r[f] ]_vars

\* ------------------------------------------------------------------ C37
\* C37: every stage returns a dict with exactly the keys it was given, the
\* two-phase intro extractor included, so every checkpoint of a run covers
\* the same ids: a stage's run that returns leaves the key set of the dict
\* as it was, and each save that succeeds writes a row for every id of the
\* run's feed, the ids the scraper returned.
C37_KeySetIsPreserved ==
    [][ /\ \A n \in 2..LastStage :
              (pc = "run" /\ stage = n /\ pc' # "idle") =>
                  DOMAIN runtime' = DOMAIN runtime
        /\ (pc = "save" /\ pc' = "run") =>
              /\ DOMAIN runtime = DOMAIN feed
              /\ {r.id : r \in store'} \cap DOMAIN feed = DOMAIN runtime
              /\ \A i \in DOMAIN runtime : runtime[i] \in store' ]_vars

\* The intro stage has returned a dict whose papers went different ways: one
\* through the download of phase 2, one set aside in phase 1.
C37_Witness ==
    /\ pc = "save" /\ stage = 2
    /\ \E i, j \in DOMAIN runtime :
          /\ runtime[i].intro_status \in {"intro_successful", "extraction_failed"}
          /\ runtime[j].intro_status = "no_latex_source"
    /\ DOMAIN runtime = PaperIds


\* ---------------------------------------------------------------- C40
TopicObtained(t) == ("topic obtained: " \o t) \in faults

\* C40: every topic embedding that _ensure_topic_embeddings obtained from the
\* backend has a row in the topic cache, also when a later topic failed and
\* the RuntimeError ended the stage.
C40_ObtainedTopicsArePersisted ==
    \A t \in Topics : TopicObtained(t) => t \in topic_cache


\* ---------------------------------------------------------------- C38
\* last_generated is non-null and strictly earlier than the given day.
OlderThan(date, cutoff) ==
    date # Null /\ \E d \in 0..(cutoff - 1) : date = "day" \o ToString(d)
IdsOf(rows) == {r.id : r \in rows}
CleanupCompleted ==
    pc = "run" /\ stage = 7 /\ stage' = 8 /\ faults' = faults

\* C38: a cleanup stage that completes deletes no stored row of a paper of
\* the current run, and the stored rows it deletes are exactly those whose
\* last_generated is non-null and strictly earlier than the cutoff date
\* (today minus retention_days) for the retention period it was given.
C38_CleanupDeletesExactlyTheOldRows ==
    [][ CleanupCompleted =>
          /\ DOMAIN runtime \subseteq IdsOf(store')
          /\ \E retention_days \in 0..MaxRetentionDays :
                IdsOf(store) \ IdsOf(store') =
                   {r.id : r \in {x \in store : /\ x.id \notin DOMAIN runtime
                                                /\ OlderThan(x.last_generated,
                                                             run - retention_days)}} ]_vars


\* ---------------------------------------------------------------- C39
SavedNow == save_papers(store, runtime)
LoadedBack == load_papers(SavedNow, DOMAIN runtime)

\* C39: saving the dict and loading its ids back returns, for every id, a
\* paper equal to the saved one in every persisted field, last_generated
\* included, and load_papers agrees with load_paper on every id.
C39_StoreRoundTrip ==
    /\ DOMAIN LoadedBack = DOMAIN runtime
    /\ \A i \in DOMAIN runtime :
          /\ LoadedBack[i] = runtime[i]
          /\ LoadedBack[i] = load_paper(SavedNow, i)
====
